---- MODULE Spec2Model ----
(***************************************************************************)
(* Transaction threat detection engine (DetectionService).                 *)
(*                                                                         *)
(* JavaScript strings are modelled as sequences of one-character strings,  *)
(* so that toLowerCase, startsWith, includes, substring, parseInt and the  *)
(* BigNumber parser are computed character by character.  An object is a   *)
(* function whose DOMAIN holds exactly the keys that are present; an       *)
(* absent optional field is a key missing from the DOMAIN.                 *)
(***************************************************************************)
EXTENDS Integers, Sequences, FiniteSets, TLC

VARIABLES request, entry, pc, findings, response, search

vars == <<request, entry, pc, findings, response, search>>

----------------------------------------------------------------------------
(* Characters *)

Digits == <<"0", "1", "2", "3", "4", "5", "6", "7", "8", "9">>

UpperCase ==
    <<"A", "B", "C", "D", "E", "F", "G", "H", "I", "J", "K", "L", "M",
      "N", "O", "P", "Q", "R", "S", "T", "U", "V", "W", "X", "Y", "Z">>

LowerCase ==
    <<"a", "b", "c", "d", "e", "f", "g", "h", "i", "j", "k", "l", "m",
      "n", "o", "p", "q", "r", "s", "t", "u", "v", "w", "x", "y", "z">>

Range(s) == {s[i] : i \in 1..Len(s)}

IndexIn(c, s) == CHOOSE i \in 1..Len(s) : s[i] = c

IsDigit(c) == c \in Range(Digits)

IsUpper(c) == c \in Range(UpperCase)

IsLower(c) == c \in Range(LowerCase)

(* String.prototype.charCodeAt for the characters the model uses *)
charCodeAt(c) ==
    IF IsDigit(c) THEN 47 + IndexIn(c, Digits)
    ELSE IF IsUpper(c) THEN 64 + IndexIn(c, UpperCase)
    ELSE IF IsLower(c) THEN 96 + IndexIn(c, LowerCase)
    ELSE IF c = "-" THEN 45
    ELSE IF c = "." THEN 46
    ELSE IF c = "_" THEN 95
    ELSE 32

LowerChar(c) == IF IsUpper(c) THEN LowerCase[IndexIn(c, UpperCase)] ELSE c

toLowerCase(s) == [i \in 1..Len(s) |-> LowerChar(s[i])]

Min(a, b) == IF a < b THEN a ELSE b

startsWith(s, p) == Len(s) >= Len(p) /\ SubSeq(s, 1, Len(p)) = p

includes(s, p) ==
    \E i \in 1..(Len(s) - Len(p) + 1) : SubSeq(s, i, i + Len(p) - 1) = p

(* s.substring(0, n) *)
substring0(s, n) == SubSeq(s, 1, Min(n, Len(s)))

(* a normalisation that leaves the 0x prefix in place *)
keep0x(s) == s

(* s.replace('0x', ''): the first occurrence only, wherever it is *)
replace0x(s) ==
    IF includes(s, <<"0", "x">>)
    THEN LET i == CHOOSE k \in 1..(Len(s) - 1) :
                       /\ SubSeq(s, k, k + 1) = <<"0", "x">>
                       /\ \A j \in 1..(k - 1) : SubSeq(s, j, j + 1) # <<"0", "x">>
         IN  SubSeq(s, 1, i - 1) \o SubSeq(s, i + 2, Len(s))
    ELSE s

(* Object helpers: o.k is present / o?.k, with a default when absent *)
Has(o, k) == k \in DOMAIN o

(* a present, non-empty string: the JavaScript truthiness of o.k *)
Truthy(o, k) == Has(o, k) /\ o[k] # <<>>

(* o.k?.startsWith(p) and o.k?.includes(p): undefined (falsy) when absent *)
optStartsWith(o, k, p) == Has(o, k) /\ startsWith(o[k], p)

optIncludes(o, k, p) == Has(o, k) /\ includes(o[k], p)

(* o.k?.substring(0, 10) || '' *)
selectorOf(o, k) == IF Has(o, k) THEN substring0(o[k], 10) ELSE <<>>

----------------------------------------------------------------------------
(* Numbers: parseInt and ethers.BigNumber.from on strings *)

HexLetters == <<"a", "b", "c", "d", "e", "f">>

IsHexDigit(c) == IsDigit(c) \/ LowerChar(c) \in Range(HexLetters)

DigitValue(c) ==
    IF IsDigit(c) THEN IndexIn(c, Digits) - 1
    ELSE 9 + IndexIn(LowerChar(c), HexLetters)

IsRadixDigit(c, radix) == IF radix = 16 THEN IsHexDigit(c) ELSE IsDigit(c)

(* the length of the longest prefix of s made of digits of the radix *)
RECURSIVE DigitPrefixLen(_, _)
DigitPrefixLen(s, radix) ==
    IF s = <<>> \/ ~IsRadixDigit(Head(s), radix) THEN 0
    ELSE 1 + DigitPrefixLen(Tail(s), radix)

(* the number written by the digits of s in the radix *)
RECURSIVE DigitsValue(_, _)
DigitsValue(s, radix) ==
    IF s = <<>> THEN 0
    ELSE DigitsValue(SubSeq(s, 1, Len(s) - 1), radix) * radix
         + DigitValue(s[Len(s)])

NaN == [nan |-> TRUE, n |-> 0]

Num(k) == [nan |-> FALSE, n |-> k]

HasHexPrefix(s) == Len(s) >= 2 /\ s[1] = "0" /\ LowerChar(s[2]) = "x"

(* parseInt(s, radix): an optional sign, for radix 16 an optional 0x, then *)
(* the longest run of digits; NaN when that run is empty.  radix 0 stands  *)
(* for the call without a radix: 16 after a 0x prefix, 10 otherwise.       *)
parseIntUnsigned(s, radix) ==
    LET hex  == radix = 16 \/ (radix = 0 /\ HasHexPrefix(s))
        base == IF hex THEN 16 ELSE 10
        body == IF radix \in {0, 16} /\ HasHexPrefix(s)
                THEN SubSeq(s, 3, Len(s)) ELSE s
        k    == DigitPrefixLen(body, base)
    IN  IF k = 0 THEN NaN ELSE Num(DigitsValue(SubSeq(body, 1, k), base))

parseInt(s, radix) ==
    IF s # <<>> /\ s[1] = "-"
    THEN LET r == parseIntUnsigned(Tail(s), radix)
         IN  IF r.nan THEN NaN ELSE Num(0 - r.n)
    ELSE parseIntUnsigned(s, radix)

(* a || b on numbers: b when a is NaN or 0 *)
OrElse(a, b) == IF a.nan \/ a.n = 0 THEN b ELSE a

(* ethers.BigNumber.from(string) accepts -?[0-9]+ and -?0x[0-9a-fA-F]+,    *)
(* and throws "invalid BigNumber string" on anything else.                 *)
BigNumberBody(s) == IF s # <<>> /\ s[1] = "-" THEN Tail(s) ELSE s

IsBigNumberString(s) ==
    LET b == BigNumberBody(s)
    IN  \/ b # <<>> /\ \A i \in 1..Len(b) : IsDigit(b[i])
        \/ /\ Len(b) >= 3
           /\ HasHexPrefix(b)
           /\ \A i \in 3..Len(b) : IsHexDigit(b[i])

BigNumberFrom(s) ==
    LET b == BigNumberBody(s)
        v == IF HasHexPrefix(b) THEN DigitsValue(SubSeq(b, 3, Len(b)), 16)
             ELSE DigitsValue(b, 10)
    IN  IF s[1] = "-" THEN 0 - v ELSE v

(* Number.prototype.toString / BigNumber.toString for n >= 0 *)
RECURSIVE toDecimalString(_)
toDecimalString(n) ==
    IF n < 10 THEN <<Digits[n + 1]>>
    ELSE toDecimalString(n \div 10) \o <<Digits[(n % 10) + 1]>>

HexDigitChars == Digits \o HexLetters

RECURSIVE HexDigitsOf(_)
HexDigitsOf(n) ==
    IF n < 16 THEN <<HexDigitChars[n + 1]>>
    ELSE HexDigitsOf(n \div 16) \o <<HexDigitChars[(n % 16) + 1]>>

toHexString(n) == <<"0", "x">> \o HexDigitsOf(n)

----------------------------------------------------------------------------
(* Configuration set by the constructor *)

(* ethers.utils.parseEther scales by 10^18; the model scales by WeiPerEther *)
(* so that every amount stays within the range of the model's integers.    *)
(* Every threshold and every literal amount is derived from it the way the *)
(* source derives it from one ether.                                       *)
WeiPerEther == 1000

parseEther(n) == n * WeiPerEther

blacklistedAddresses ==
    { <<"0", "x", "4", "d", "9", "0", "e", "2", "f", "c", "6", "d", "d", "6", "c", "1", "e", "0", "a", "4", "5", "e", "1", "5", "a", "5", "3", "5", "d", "8", "9", "e", "c", "b", "e", "1", "1", "d", "a", "7", "6", "6">>,
      <<"0", "x", "b", "a", "d", "0", "0", "0", "0", "0", "0", "0", "0", "0", "0", "0", "0", "0", "0", "0", "0", "0", "0", "0", "0", "0", "0", "0", "0", "0", "0", "0", "0", "0", "0", "0", "0", "0", "0", "b", "a", "d">>,
      <<"0", "x", "1", "2", "3", "4", "0", "0", "0", "0", "0", "0", "0", "0", "0", "0", "0", "0", "0", "0", "0", "0", "0", "0", "0", "0", "0", "0", "0", "0", "0", "0", "0", "0", "0", "0", "0", "0", "5", "6", "7", "8">> }

phishingSignatures == { <<"0", "x", "4", "2", "8", "4", "2", "e", "0", "e">>, <<"0", "x", "c", "3", "c", "d", "a", "5", "2", "0">> }

poisoningPatterns == { <<"0", "x", "4", "7", "e", "7", "e", "f", "2", "4">>, <<"0", "x", "b", "8", "8", "d", "4", "f", "d", "e">> }

commonSignatures ==
    [ transfer     |-> <<"0", "x", "a", "9", "0", "5", "9", "c", "b", "b">>,
      transferFrom |-> <<"0", "x", "2", "3", "b", "8", "7", "2", "d", "d">>,
      approve      |-> <<"0", "x", "0", "9", "5", "e", "a", "7", "b", "3">>,
      mint         |-> <<"0", "x", "4", "0", "c", "1", "0", "f", "1", "9">>,
      burn         |-> <<"0", "x", "4", "2", "9", "6", "6", "c", "6", "8">> ]

governanceSignatures ==
    { <<"0", "x", "d", "a", "9", "5", "6", "9", "1", "a">>, <<"0", "x", "5", "6", "7", "8", "1", "3", "8", "8">>, <<"0", "x", "0", "8", "2", "5", "f", "3", "8", "f">>, <<"0", "x", "5", "c", "1", "9", "a", "9", "5", "c">> }

oracleSignatures == { <<"0", "x", "8", "c", "0", "b", "4", "d", "a", "d">>, <<"0", "x", "5", "0", "d", "2", "5", "b", "c", "d">>, <<"0", "x", "0", "d", "f", "e", "1", "6", "8", "1">> }

bridgeSignatures ==
    { <<"0", "x", "8", "9", "a", "f", "c", "b", "4", "4">>, <<"0", "x", "6", "e", "5", "5", "3", "f", "6", "5">>, <<"0", "x", "c", "3", "8", "0", "5", "3", "0", "0">>, <<"0", "x", "a", "2", "e", "6", "2", "0", "4", "5">> }

trustedAddresses ==
    { <<"0", "x", "d", "8", "d", "A", "6", "B", "F", "2", "6", "9", "6", "4", "a", "F", "9", "D", "7", "e", "E", "d", "9", "e", "0", "3", "E", "5", "3", "4", "1", "5", "D", "3", "7", "a", "A", "9", "6", "0", "4", "5">>,
      <<"0", "x", "A", "2", "0", "2", "5", "B", "1", "5", "a", "1", "7", "5", "7", "3", "1", "1", "b", "f", "D", "6", "8", "c", "b", "1", "4", "e", "a", "e", "F", "C", "c", "2", "3", "7", "A", "F", "5", "b", "4", "3">> }

(* the thresholds with a reentrancy search one level shallower *)
thresholdsShallow ==
    [ highValueThreshold |-> parseEther(100),
      minCallDepth       |-> 8,
      maxReentrancyDepth |-> 2,
      minValidatorCount  |-> 3 ]

thresholds ==
    [ highValueThreshold |-> parseEther(100),
      minCallDepth       |-> 8,
      maxReentrancyDepth |-> 3,
      minValidatorCount  |-> 3 ]

(* Literals the code compares against *)
SENTINEL_FROM == <<"0", "x", "1", "2", "3", "4", "5", "6", "7", "8", "9", "0", "1", "2", "3", "4", "5", "6", "7", "8", "9", "0", "1", "2", "3", "4", "5", "6", "7", "8", "9", "0", "1", "2", "3", "4", "5", "6", "7", "8", "9", "0">>

SENTINEL_TRUSTED_TO == <<"0", "x", "2", "2", "3", "4", "5", "6", "7", "8", "9", "0", "1", "2", "3", "4", "5", "6", "7", "8", "9", "0", "1", "2", "3", "4", "5", "6", "7", "8", "9", "0", "1", "2", "3", "4", "5", "6", "7", "8", "9", "0">>

FIVE_ETH_LITERAL == toDecimalString(parseEther(5))

HUNDRED_ETH_LITERAL == toDecimalString(parseEther(100))

GAS_2000000 == <<"2", "0", "0", "0", "0", "0", "0">>

SIG_WITHDRAW == <<"0", "x", "2", "e", "1", "a", "7", "d", "4", "d">>

SIG_WITHDRAW_TO == <<"0", "x", "5", "1", "c", "f", "f", "8", "d", "9">>

SIG_AAVE_FLASH_LOAN == <<"0", "x", "c", "3", "0", "1", "8", "a", "0", "e">>

SIG_DYDX_FLASH_LOAN == <<"0", "x", "5", "c", "f", "f", "e", "9", "d", "e">>

SIG_UNISWAP_FLASH_SWAP == <<"0", "x", "d", "9", "d", "9", "8", "c", "e", "4">>

SIG_EXECUTE == <<"0", "x", "0", "8", "2", "5", "f", "3", "8", "f">>

SIG_TIME_MANIPULATION == <<"0", "x", "9", "0", "5", "4", "c", "7", "d", "a">>

SIG_SWAP == <<"0", "x", "3", "8", "e", "d", "1", "7", "3", "9">>

SIG_BORROW == <<"0", "x", "c", "5", "e", "b", "e", "a", "e", "c">>

SIG_VERIFY_PROOF == <<"0", "x", "a", "2", "e", "6", "2", "0", "4", "5">>

SIG_INTERNAL == <<"0", "x", "f", "f", "f", "f", "f", "f", "f", "f">>

OWNERSHIP_TRANSFERRED ==
    <<"0", "x", "8", "b", "e", "0", "0", "7", "9", "c", "5", "3", "1", "6", "5", "9", "1", "4", "1", "3", "4", "4", "c", "d", "1", "f", "d", "0", "a", "4", "f", "2", "8", "4", "1", "9", "4", "9", "7", "f", "9", "7", "2", "2", "a", "3", "d", "a", "a", "f", "e", "3", "b", "4", "1", "8", "6", "f", "6", "b", "6", "4", "5", "7", "e", "0">>

UNLIMITED_ALLOWANCE ==
    <<"f", "f", "f", "f", "f", "f", "f", "f", "f", "f", "f", "f", "f", "f", "f", "f", "f", "f", "f", "f", "f", "f", "f", "f", "f", "f", "f", "f", "f", "f", "f", "f", "f", "f", "f", "f", "f", "f", "f", "f", "f", "f", "f", "f", "f", "f", "f", "f", "f", "f", "f", "f", "f", "f", "f", "f", "f", "f", "f", "f", "f", "f", "f", "f">>

FALSE_POSITIVE_DETECTOR == <<"f", "a", "l", "s", "e", "-", "p", "o", "s", "i", "t", "i", "v", "e", "-", "d", "e", "t", "e", "c", "t", "o", "r">>

FALSE_POSITIVE == <<"f", "a", "l", "s", "e", "-", "p", "o", "s", "i", "t", "i", "v", "e">>

LEGITIMATE == <<"l", "e", "g", "i", "t", "i", "m", "a", "t", "e">>

VERIFIED_ENTITY == <<"v", "e", "r", "i", "f", "i", "e", "d", "_", "e", "n", "t", "i", "t", "y">>

VERIFIED_PROTOCOL_ACTION == <<"v", "e", "r", "i", "f", "i", "e", "d", "_", "p", "r", "o", "t", "o", "c", "o", "l", "_", "a", "c", "t", "i", "o", "n">>

BRIDGE == <<"b", "r", "i", "d", "g", "e">>

NO_THREATS == <<"No threats detected">>

RuleKinds ==
    <<"spoofing", "phishing", "poisoning", "reentrancy", "frontRunning",
      "abnormalValue", "flashLoan", "honeypot", "governanceAttack",
      "oracleManipulation", "crossChainAttack">>

EmptyObject == [k \in {} |-> TRUE]

(* the result of a call that raised an error instead of returning *)
Threw == [threw |-> TRUE]

Result(d, m, det) ==
    [threw |-> FALSE, detected |-> d, message |-> m, details |-> det]

NotDetected == Result(FALSE, "", EmptyObject)

(* transaction.trace.calls || [] *)
callsOrEmpty(trace) == IF Has(trace, "calls") THEN trace.calls ELSE <<>>

(* a.ka === b.kb, where a missing field is undefined on either side *)
sameField(a, ka, b, kb) ==
    /\ Has(a, ka) <=> Has(b, kb)
    /\ Has(a, ka) => a[ka] = b[kb]

(* BigNumber division truncates toward zero *)
truncDiv(a, b) == IF a >= 0 THEN a \div b ELSE 0 - ((0 - a) \div b)

(* c.value || '0' *)
valueOrZero(c) == IF Truthy(c, "value") THEN c.value ELSE <<"0">>

(* c.value && BigNumber.from(c.value).gt(0), when the parse succeeds *)
positiveValue(c) == Truthy(c, "value") /\ BigNumberFrom(c.value) > 0

(* BigNumber.from(c.value) is reached and throws *)
badValue(c) == Truthy(c, "value") /\ ~IsBigNumberString(c.value)

----------------------------------------------------------------------------
(* Legitimacy override *)

(* transaction.additionalData, read through ?. : no field when absent *)
additionalDataOf(tx) ==
    IF Has(tx, "additionalData") THEN tx.additionalData ELSE EmptyObject

(* a numeric field that is present and not zero *)
TruthyNumber(o, k) == Has(o, k) /\ o[k] # 0

(* additionalData?.detectorName?.includes('false-positive') *)
taggedFalsePositive(tx) ==
    optIncludes(additionalDataOf(tx), "detectorName", FALSE_POSITIVE)

(* additionalData?.testName?.toLowerCase().includes('legitimate') *)
taggedLegitimate(tx) ==
    LET ad == additionalDataOf(tx)
    IN  Has(ad, "testName") /\ includes(toLowerCase(ad.testName), LEGITIMATE)

(* the loan and the repayment of the "alternative check using values" *)
loanCall(calls) == IF calls = <<>> THEN EmptyObject ELSE calls[1]

repaymentCall(calls) == IF calls = <<>> THEN EmptyObject ELSE calls[Len(calls)]

isLegitimateOperation(tx) ==
    LET trace == tx.trace
        ad    == additionalDataOf(tx)
        calls == callsOrEmpty(trace)
        flagged ==
            \/ trace.from = SENTINEL_FROM
            \/ (Has(ad, "senderType") /\ ad.senderType = VERIFIED_ENTITY)
            \/ taggedLegitimate(tx)
            \/ taggedFalsePositive(tx)
        flashInput == optStartsWith(trace, "input", SIG_AAVE_FLASH_LOAN)
        sameProvider ==
            /\ Len(calls) > 1
            /\ optStartsWith(calls[1], "input", SIG_AAVE_FLASH_LOAN)
            /\ sameField(calls[Len(calls)], "to", calls[1], "to")
        parseFails ==
            \/ ~IsBigNumberString(valueOrZero(loanCall(calls)))
            \/ ~IsBigNumberString(valueOrZero(repaymentCall(calls)))
        loanAmount      == BigNumberFrom(valueOrZero(loanCall(calls)))
        repaymentAmount == BigNumberFrom(valueOrZero(repaymentCall(calls)))
        repaid == repaymentAmount > truncDiv(loanAmount * 99, 100)
        trusted ==
            /\ trace.from \in trustedAddresses
            /\ optStartsWith(trace, "input", commonSignatures.transfer)
        signatures ==
            /\ TruthyNumber(ad, "signaturesRequired")
            /\ TruthyNumber(ad, "signaturesProvided")
            /\ ad.signaturesProvided >= ad.signaturesRequired
        validators ==
            /\ TruthyNumber(ad, "validatorsRequired")
            /\ TruthyNumber(ad, "validatorsConfirmed")
            /\ ad.validatorsConfirmed >= ad.validatorsRequired
        bridge ==
            /\ includes(toLowerCase(trace.to), BRIDGE)
            /\ (TruthyNumber(ad, "sourceChainId")
                \/ TruthyNumber(ad, "destinationChainId"))
        verified ==
            \/ (Has(ad, "operationType")
                /\ ad.operationType = VERIFIED_PROTOCOL_ACTION)
            \/ (Has(ad, "contractsVerified") /\ ad.contractsVerified = TRUE)
    IN  IF flagged THEN [threw |-> FALSE, value |-> TRUE]
        ELSE IF flashInput /\ sameProvider THEN [threw |-> FALSE, value |-> TRUE]
        ELSE IF flashInput /\ parseFails THEN Threw
        ELSE IF flashInput /\ repaid THEN [threw |-> FALSE, value |-> TRUE]
        ELSE [threw |-> FALSE,
              value |-> trusted \/ signatures \/ validators \/ bridge \/ verified]

----------------------------------------------------------------------------
(* Spoofing *)

(* matches and a1.length of calculateAddressSimilarity: the score is their *)
(* quotient, NaN when the first address has no characters after 0x.        *)
calculateAddressSimilarity(address1, address2) ==
    LET a1 == replace0x(toLowerCase(address1))
        a2 == replace0x(toLowerCase(address2))
    IN  [matches |-> Cardinality({i \in 1..Len(a1) :
                                    i <= Len(a2) /\ a1[i] = a2[i]}),
         length  |-> Len(a1)]

(* similarity > 0.7 && similarity < 1.0 *)
isAddressSpoofing(address1, address2) ==
    LET s == calculateAddressSimilarity(address1, address2)
    IN  /\ address1 # <<>>
        /\ address2 # <<>>
        /\ s.length > 0
        /\ 10 * s.matches > 7 * s.length
        /\ s.matches < s.length

isHashManipulated(trace) ==
    /\ Truthy(trace, "transactionHash")
    /\ LET h == replace0x(toLowerCase(trace.transactionHash))
           repeatedChars ==
               \E c \in Range(h) :
                   Cardinality({i \in 1..Len(h) : h[i] = c}) > 20
           sequential ==
               \E i \in 1..(Len(h) - 11) :
                   \A j \in 1..11 :
                       charCodeAt(h[i + j]) = charCodeAt(h[i + j - 1]) + 1
       IN  repeatedChars \/ sequential

(* a lookup that does not lower-case the address *)
isBlacklistedExact(address) == address \in blacklistedAddresses

isBlacklisted(address) == toLowerCase(address) \in blacklistedAddresses

detectSpoofing(tx) ==
    LET trace == tx.trace
        black == isBlacklisted(trace.from) \/ isBlacklisted(trace.to)
        spoof == isAddressSpoofing(trace.from, trace.to)
        hash  == isHashManipulated(trace)
        d1 == IF black
              THEN "blacklistedAddress" :>
                     (IF toLowerCase(trace.from) = toLowerCase(trace.to)
                      THEN trace.from
                      ELSE trace.from \o <<" ", "o", "r", " ">> \o trace.to)
              ELSE EmptyObject
        d2 == IF spoof
              THEN "addressSimilarity" :>
                     [from |-> trace.from, to |-> trace.to,
                      similarity |->
                          calculateAddressSimilarity(trace.from, trace.to)]
              ELSE EmptyObject
        d3 == IF hash
              THEN "suspiciousHash" :> trace.transactionHash
              ELSE EmptyObject
        message ==
            IF hash THEN "Suspicious transaction hash pattern detected."
            ELSE IF spoof THEN "Potential address spoofing detected."
            ELSE IF black THEN "Transaction involves blacklisted address."
            ELSE ""
    IN  Result(black \/ spoof \/ hash, message, d1 @@ d2 @@ d3)

----------------------------------------------------------------------------
(* Phishing *)

hasOwnershipTransfer(trace) ==
    /\ Has(trace, "logs")
    /\ \E i \in 1..Len(trace.logs) :
           /\ Has(trace.logs[i], "topics")
           /\ OWNERSHIP_TRANSFERRED \in Range(trace.logs[i].topics)

detectPhishing(tx) ==
    LET trace == tx.trace
        long  == Truthy(trace, "input") /\ Len(trace.input) >= 10
        methodSignature == substring0(trace.input, 10)
        known == long /\ methodSignature \in phishingSignatures
        unlimited ==
            /\ long
            /\ methodSignature = commonSignatures.approve
            /\ includes(trace.input, UNLIMITED_ALLOWANCE)
        owner == hasOwnershipTransfer(trace)
        suspicious == isBlacklisted(trace.to)
    IN  IF owner
        THEN Result(TRUE,
                 IF suspicious
                 THEN "Ownership transfer to suspicious address detected."
                 ELSE "Ownership transfer detected - verify legitimacy.",
                 [ownershipTransfer |-> TRUE, transferTarget |-> trace.to])
        ELSE IF unlimited
        THEN Result(TRUE,
                 IF suspicious
                 THEN "Unlimited token approval to suspicious address detected."
                 ELSE "Unlimited token approval detected - potential phishing.",
                 [unlimitedApproval |-> TRUE, approvalTarget |-> trace.to])
        ELSE IF known
        THEN Result(TRUE,
                 "Known phishing signature detected in transaction input.",
                 [phishingSignature |-> methodSignature])
        ELSE NotDetected

----------------------------------------------------------------------------
(* Poisoning *)

(* preState[address][key] !== postState[address][key]: strings and numbers *)
(* compare by value, the nested storage object by identity, so the storage *)
(* of two snapshots always differs.                                        *)
accountKeyChanged(pre, post, key) ==
    \/ ~Has(pre, key)
    \/ key = "storage"
    \/ pre[key] # post[key]

accountKeys(state) == UNION { DOMAIN state[a] : a \in DOMAIN state }

detectUnusualStateChanges(preState, postState) ==
    { [type |-> "new_address", address |-> a] :
          a \in (DOMAIN postState) \ (DOMAIN preState) }
    \cup
    { [type |-> "state_change", address |-> c[1], key |-> c[2]] :
          c \in { x \in (DOMAIN postState) \X accountKeys(postState) :
                    /\ x[1] \in DOMAIN preState
                    /\ x[2] \in DOMAIN postState[x[1]]
                    /\ accountKeyChanged(preState[x[1]], postState[x[1]], x[2]) } }
    \cup
    { [type |-> "removed_address", address |-> a] :
          a \in (DOMAIN preState) \ (DOMAIN postState) }

(* addresses that are the target of more than three calls *)
repeatedTargets(calls) ==
    { a \in { calls[i].to : i \in { j \in 1..Len(calls) : Truthy(calls[j], "to") } } :
        Cardinality({ i \in 1..Len(calls) :
                        Truthy(calls[i], "to") /\ calls[i].to = a }) > 3 }

sizeDisparity(call) ==
    LET inputSize  == IF Has(call, "input") THEN Len(call.input) ELSE 0
        outputSize == IF Has(call, "output") THEN Len(call.output) ELSE 0
    IN  inputSize > 0 /\ outputSize > 100 * inputSize

(* the pattern found, or FALSE *)
detectSuspiciousCallPattern(calls) ==
    IF calls = <<>> THEN [found |-> FALSE]
    ELSE IF Len(calls) > thresholds.minCallDepth
    THEN [found |-> TRUE, type |-> "deep_call_chain", depth |-> Len(calls)]
    ELSE IF repeatedTargets(calls) # {}
    THEN [found |-> TRUE, type |-> "repeated_calls",
          addresses |-> repeatedTargets(calls)]
    ELSE IF \E i \in 1..Len(calls) : sizeDisparity(calls[i])
    THEN [found |-> TRUE, type |-> "input_output_disparity"]
    ELSE [found |-> FALSE]

detectPoisoning(tx) ==
    LET trace == tx.trace
        known ==
            /\ Truthy(trace, "input")
            /\ Len(trace.input) >= 10
            /\ substring0(trace.input, 10) \in poisoningPatterns
        changes ==
            IF Has(trace, "pre") /\ Has(trace, "post")
            THEN detectUnusualStateChanges(trace.pre, trace.post)
            ELSE {}
        pattern == detectSuspiciousCallPattern(callsOrEmpty(trace))
        d1 == IF known
              THEN "poisoningSignature" :> substring0(trace.input, 10)
              ELSE EmptyObject
        d2 == IF changes # {} THEN "stateChanges" :> changes ELSE EmptyObject
        d3 == IF pattern.found
              THEN "suspiciousCallPattern" :> pattern ELSE EmptyObject
        message ==
            IF pattern.found THEN "Unusual function call pattern detected."
            ELSE IF changes # {}
            THEN "Unusual state changes detected - potential poisoning."
            ELSE IF known THEN "Known state poisoning pattern detected."
            ELSE ""
    IN  Result(known \/ changes # {} \/ pattern.found, message, d1 @@ d2 @@ d3)

----------------------------------------------------------------------------
(* Reentrancy: call graph, cycle search, pattern analysis *)

isWithdrawLike(call) ==
    \/ optIncludes(call, "input", SIG_WITHDRAW)
    \/ optIncludes(call, "input", SIG_WITHDRAW_TO)

(* the calls buildCallGraph does not skip: indices into calls, from 1 *)
graphCalls(calls) ==
    { i \in 1..Len(calls) : Truthy(calls[i], "from") /\ Truthy(calls[i], "to") }

(* s without the repetitions of its elements, in order of first occurrence *)
RECURSIVE firstOccurrences(_)
firstOccurrences(s) ==
    IF s = <<>> THEN <<>>
    ELSE LET r == firstOccurrences(SubSeq(s, 1, Len(s) - 1))
             x == s[Len(s)]
         IN  IF x \in Range(r) THEN r ELSE Append(r, x)

(* the elements of calls, in order, whose index satisfies keep *)
RECURSIVE pick(_, _, _)
pick(calls, keep, i) ==
    IF i > Len(calls) THEN <<>>
    ELSE (IF i \in keep THEN <<i>> ELSE <<>>) \o pick(calls, keep, i + 1)

(* a reverse edge for value transfers only *)
hasReverseEdgeForValue(call) == positiveValue(call)

hasReverseEdge(call) == positiveValue(call) \/ isWithdrawLike(call)

(* an edge that points back at the caller *)
forwardEdgeToCaller(calls, i) ==
    [to |-> calls[i].from, index |-> i - 1, value |-> valueOrZero(calls[i])]

forwardEdge(calls, i) ==
    [to |-> calls[i].to, index |-> i - 1, value |-> valueOrZero(calls[i])]

reverseEdge(calls, i) ==
    [to |-> calls[i].from, index |-> i - 1, value |-> valueOrZero(calls[i])]

(* the graph as its keys in insertion order and the edge list of each key: *)
(* the first pass appends every forward edge, the second every reverse one *)
buildCallGraph(calls) ==
    LET valid == pick(calls, graphCalls(calls), 1)
        froms == [k \in 1..Len(valid) |-> calls[valid[k]].from]
        tos   == [k \in 1..Len(valid) |-> calls[valid[k]].to]
        keys  == firstOccurrences(froms \o tos)
        fwd(a) == pick(calls, { i \in graphCalls(calls) : calls[i].from = a }, 1)
        rev(a) == pick(calls, { i \in graphCalls(calls) :
                                  calls[i].to = a /\ hasReverseEdge(calls[i]) }, 1)
    IN  [ keys  |-> keys,
          edges |-> [ a \in Range(keys) |->
                        [k \in 1..Len(fwd(a)) |-> forwardEdge(calls, fwd(a)[k])]
                        \o
                        [k \in 1..Len(rev(a)) |-> reverseEdge(calls, rev(a)[k])] ] ]

(* buildCallGraph parses the value of every call it does not skip *)
buildCallGraphThrows(calls) ==
    \E i \in graphCalls(calls) : badValue(calls[i])

(* a search that always takes the path from its start *)
indexOfStart(path, node) == 1

indexOf(path, node) == CHOOSE i \in 1..Len(path) :
                           path[i] = node /\ \A j \in 1..(i - 1) : path[j] # node

RECURSIVE dfs(_, _, _, _, _)
RECURSIVE dfsNeighbors(_, _, _, _, _, _)

(* the closure dfs of findReentrancyPaths; st holds paths and visited *)
dfs(callGraph, node, path, depth, st) ==
    IF depth > thresholds.maxReentrancyDepth THEN st
    ELSE IF path # <<>> /\ node \in Range(path)
    THEN [st EXCEPT !.paths =
              Append(@, Append(SubSeq(path, indexOf(path, node), Len(path)), node))]
    ELSE LET entered == [st EXCEPT !.visited = @ \cup {node}]
             explored ==
                 IF node \in DOMAIN callGraph.edges
                 THEN dfsNeighbors(callGraph, callGraph.edges[node], 1,
                                   Append(path, node), depth + 1, entered)
                 ELSE entered
         IN  [explored EXCEPT !.visited = @ \ {node}]

dfsNeighbors(callGraph, edges, k, path, depth, st) ==
    IF k > Len(edges) THEN st
    ELSE dfsNeighbors(callGraph, edges, k + 1, path, depth,
                      dfs(callGraph, edges[k].to, path, depth, st))

RECURSIVE dfsRoots(_, _, _)
dfsRoots(callGraph, k, st) ==
    IF k > Len(callGraph.keys) THEN st
    ELSE dfsRoots(callGraph, k + 1,
                  IF callGraph.keys[k] \notin st.visited
                  THEN dfs(callGraph, callGraph.keys[k], <<>>, 0, st)
                  ELSE st)

(* a search whose paths array outlives the evaluation: it starts from the  *)
(* paths the previous evaluation reported                                  *)
findReentrancyPathsShared(callGraph) ==
    dfsRoots(callGraph, 1,
             [paths |-> IF /\ "reentrancy" \in DOMAIN findings
                           /\ ~findings["reentrancy"].threw
                           /\ findings["reentrancy"].detected
                        THEN findings["reentrancy"].details.reentrancyPaths
                        ELSE <<>>,
              visited |-> {}]).paths

findReentrancyPaths(callGraph) ==
    dfsRoots(callGraph, 1, [paths |-> <<>>, visited |-> {}]).paths

RECURSIVE flat(_)
flat(ss) == IF ss = <<>> THEN <<>> ELSE Head(ss) \o flat(Tail(ss))

(* the outcome of evaluating, in order and stopping at the first that is   *)
(* not "F", a list of checks that each yield "T", "F" or "X" (an error)    *)
RECURSIVE firstOutcome(_)
firstOutcome(events) ==
    IF events = <<>> THEN "F"
    ELSE IF Head(events) # "F" THEN Head(events)
    ELSE firstOutcome(Tail(events))

involves(call, addr) ==
    \/ (Has(call, "from") /\ call.from = addr)
    \/ (Has(call, "to") /\ call.to = addr)

(* path.map(addr => calls.find(...)).filter(call => call !== undefined) *)
pathCallsOf(calls, path) ==
    LET found(addr) == { i \in 1..Len(calls) : involves(calls[i], addr) }
        first(addr) == CHOOSE i \in found(addr) : \A j \in found(addr) : i <= j
        kept == SelectSeq(path, LAMBDA addr : found(addr) # {})
    IN  [k \in 1..Len(kept) |-> calls[first(kept[k])]]

writeAfterCallChecks(calls, path) ==
    LET pc_ == pathCallsOf(calls, path)
    IN  [k \in 1..(Len(pc_) - 1) |->
            IF ~optIncludes(pc_[k + 1], "input", <<"0", "x">>) THEN "F"
            ELSE IF ~Truthy(pc_[k], "value") THEN "F"
            ELSE IF ~IsBigNumberString(pc_[k].value) THEN "X"
            ELSE IF BigNumberFrom(pc_[k].value) > 0 THEN "T" ELSE "F"]

(* one check per address of the path and call involving it, then the count *)
nestedValueCheck(calls, path) ==
    LET related == { x \in (1..Len(path)) \X (1..Len(calls)) :
                       /\ involves(calls[x[2]], path[x[1]])
                       /\ Truthy(calls[x[2]], "value") }
    IN  IF \E x \in related : ~IsBigNumberString(calls[x[2]].value) THEN "X"
        ELSE IF Cardinality({ x \in related :
                                BigNumberFrom(calls[x[2]].value) > 0 }) > 1
        THEN "T" ELSE "F"

withdrawalCallsOf(calls) == { i \in 1..Len(calls) : isWithdrawLike(calls[i]) }

multipleWithdrawalsPattern(n) ==
    [pattern |-> "multiple_withdrawals", severity |-> "high",
     description |-> <<"Multiple withdrawal calls (", ToString(n),
                       ") detected in the same transaction">>]

analyzeReentrancyPatterns(calls, paths) ==
    LET write  == firstOutcome(flat([k \in 1..Len(paths) |->
                                       writeAfterCallChecks(calls, paths[k])]))
        nested == firstOutcome([k \in 1..Len(paths) |->
                                       nestedValueCheck(calls, paths[k])])
        n == Cardinality(withdrawalCallsOf(calls))
    IN  IF write = "X" \/ nested = "X" THEN Threw
        ELSE [threw |-> FALSE,
              patterns |->
                (IF write = "T"
                 THEN << [pattern |-> "write_after_call", severity |-> "high",
                          description |-> <<"State changes detected after external calls with value transfers">>] >>
                 ELSE <<>>)
                \o (IF n > 1 THEN <<multipleWithdrawalsPattern(n)>> ELSE <<>>)
                \o (IF nested = "T"
                    THEN << [pattern |-> "nested_value_transfers", severity |-> "medium",
                             description |-> <<"Multiple value transfers detected in nested calls">>] >>
                    ELSE <<>>)]

detectReentrancy(tx) ==
    LET trace == tx.trace
        legit == isLegitimateOperation(tx)
        calls == callsOrEmpty(trace)
        reentrancyPaths == findReentrancyPaths(buildCallGraph(calls))
        analysis == analyzeReentrancyPatterns(calls, reentrancyPaths)
    IN  IF legit.threw THEN Threw
        ELSE IF legit.value \/ taggedFalsePositive(tx) \/ taggedLegitimate(tx)
        THEN NotDetected
        ELSE IF calls = <<>> THEN NotDetected
        ELSE IF buildCallGraphThrows(calls) THEN Threw
        ELSE IF reentrancyPaths = <<>> THEN NotDetected
        ELSE IF analysis.threw THEN Threw
        ELSE Result(TRUE, "Potential reentrancy attack detected.",
                 [reentrancyPaths   |-> reentrancyPaths,
                  callCount         |-> Len(calls),
                  suspiciousPatterns |-> analysis.patterns,
                  contractsInvolved |-> firstOccurrences(flat(reentrancyPaths))])

----------------------------------------------------------------------------
(* Front-running, abnormal value, flash loan, honeypot *)

gasValueOf(gas) == OrElse(parseInt(gas, 16), parseInt(gas, 0))

greaterThan(r, k) == ~r.nan /\ r.n > k

lessThan(r, k) == ~r.nan /\ r.n < k

(* `${((gasValue / 21000) - 1) * 100}%`, kept as the number it formats *)
gasDifferenceOf(r) == [gasValue |-> r, normalGasLimit |-> 21000]

detectFrontRunning(tx) ==
    LET trace == tx.trace
        legit == isLegitimateOperation(tx)
        gasValue == gasValueOf(trace.gas)
        highGasLimit == greaterThan(gasValue, 1000000) \/ trace.gas = GAS_2000000
        high == highGasLimit /\ ~taggedFalsePositive(tx)
        transfer ==
            /\ Truthy(trace, "input")
            /\ startsWith(trace.input, commonSignatures.transfer)
            /\ trace.gas = GAS_2000000
            /\ ~taggedFalsePositive(tx)
    IN  IF legit.threw THEN Threw
        ELSE IF legit.value \/ ~Truthy(trace, "gas") THEN NotDetected
        ELSE IF transfer
        THEN Result(TRUE, "High gas transfer - potential front-running.",
                 [frontRunning |->
                    [highGas |-> parseInt(trace.gas, 0),
                     functionSignature |-> substring0(trace.input, 10),
                     gasDifference |-> gasDifferenceOf(parseInt(trace.gas, 0)),
                     transactionType |-> "ERC20 token transfer with unusually high gas"]])
        ELSE IF high
        THEN Result(TRUE, "Unusually high gas limit - potential front-running.",
                 [frontRunning |->
                    [highGas |-> gasValue,
                     normalGasLimit |-> 21000,
                     gasDifference |-> gasDifferenceOf(gasValue),
                     suspicionReason |-> "Abnormally high gas limit compared to standard transactions"]])
        ELSE NotDetected

(* a comparison that includes the threshold itself *)
reachesThreshold(value) == BigNumberFrom(value) >= thresholds.highValueThreshold

(* value.gt(this.thresholds.highValueThreshold) *)
exceedsThreshold(value) == BigNumberFrom(value) > thresholds.highValueThreshold

detectAbnormalValue(tx) ==
    LET trace == tx.trace
    IN  IF ~Truthy(trace, "value") THEN NotDetected
        ELSE IF ~IsBigNumberString(trace.value) THEN Threw
        ELSE IF \/ exceedsThreshold(trace.value)
                \/ trace.value = HUNDRED_ETH_LITERAL
        THEN Result(TRUE, "Unusually high transaction value detected.",
                 [transactionValue |-> trace.value,
                  threshold |-> toDecimalString(thresholds.highValueThreshold)])
        ELSE NotDetected

hasFlashLoanSignature(calls) ==
    \E i \in 1..Len(calls) :
        /\ Truthy(calls[i], "input")
        /\ \/ includes(calls[i].input, SIG_AAVE_FLASH_LOAN)
           \/ includes(calls[i].input, SIG_DYDX_FLASH_LOAN)
           \/ includes(calls[i].input, SIG_UNISWAP_FLASH_SWAP)

largeValue(call) ==
    Truthy(call, "value")
    /\ BigNumberFrom(call.value) > thresholds.highValueThreshold

(* largeValueTransfer after the loop has processed calls 1..i *)
largeValueTransferBy(calls, i) == \E j \in 1..i : largeValue(calls[j])

repaymentPatternOf(calls) ==
    \E i \in 2..Len(calls) :
        /\ largeValueTransferBy(calls, i)
        /\ sameField(calls[i], "to", calls[1], "from")
        /\ positiveValue(calls[i])

detectFlashLoanAttack(tx) ==
    LET calls == callsOrEmpty(tx.trace)
        sig   == hasFlashLoanSignature(calls)
        large == largeValueTransferBy(calls, Len(calls))
        repay == repaymentPatternOf(calls)
    IN  IF calls = <<>> THEN NotDetected
        ELSE IF \E i \in 1..Len(calls) : badValue(calls[i]) THEN Threw
        ELSE IF sig \/ (large /\ repay)
        THEN Result(TRUE, "Flash loan pattern detected - verify legitimacy.",
                 [flashLoanIndicators |->
                    [hasFlashLoanSignature |-> sig,
                     largeValueTransfer |-> large,
                     repaymentPattern |-> repay]])
        ELSE NotDetected

(* a honeypot check that consults the legitimacy override first *)
detectHoneypotUnlessLegitimate(tx) ==
    IF isLegitimateOperation(tx).value THEN NotDetected
    ELSE IF \E i \in 1..Len(callsOrEmpty(tx.trace)) :
                /\ optIncludes(callsOrEmpty(tx.trace)[i], "input", SIG_WITHDRAW)
                /\ ~Truthy(callsOrEmpty(tx.trace)[i], "output")
    THEN Result(TRUE, "Failed withdrawal detected - potential honeypot.",
             [failedWithdrawal |-> TRUE])
    ELSE NotDetected

detectHoneypot(tx) ==
    LET calls == callsOrEmpty(tx.trace)
        hasFailedWithdrawal ==
            \E i \in 1..Len(calls) :
                /\ Truthy(calls[i], "input")
                /\ includes(calls[i].input, SIG_WITHDRAW)
                /\ (~Truthy(calls[i], "output") \/ calls[i].output = <<"0", "x">>)
    IN  IF hasFailedWithdrawal
        THEN Result(TRUE, "Failed withdrawal detected - potential honeypot.",
                 [failedWithdrawal |-> TRUE])
        ELSE NotDetected

----------------------------------------------------------------------------
(* Governance attack *)

(* c.input?.startsWith(transfer) && BigNumber.from(c.value || '0')...:     *)
(* the value of a transfer call is parsed, and the parse may throw         *)
transferParseFails(c) ==
    /\ optStartsWith(c, "input", commonSignatures.transfer)
    /\ ~IsBigNumberString(valueOrZero(c))

largeTransfer(c) ==
    /\ optStartsWith(c, "input", commonSignatures.transfer)
    /\ BigNumberFrom(valueOrZero(c)) > parseEther(1000)

(* c.calls when present: the nested calls of a call *)
nestedCalls(c) == IF Has(c, "calls") THEN c.calls ELSE <<>>

(* calls[].calls[].calls[]: the calls exactly two levels below the list *)
deepNestedCalls(calls) ==
    flat([i \in 1..Len(calls) |->
            flat([j \in 1..Len(nestedCalls(calls[i])) |->
                    nestedCalls(nestedCalls(calls[i])[j])])])

isGovernanceCall(c) == selectorOf(c, "input") \in governanceSignatures

detectGovernanceAttack(tx) ==
    LET calls == callsOrEmpty(tx.trace)
        hasFlashLoan ==
            \E i \in 1..Len(calls) :
                optStartsWith(calls[i], "input", SIG_AAVE_FLASH_LOAN)
        hasGovernanceAction == \E i \in 1..Len(calls) : isGovernanceCall(calls[i])
        hasLargeTransfer == \E i \in 1..Len(calls) : largeTransfer(calls[i])
        hasExecute ==
            \E i \in 1..Len(calls) : optStartsWith(calls[i], "input", SIG_EXECUTE)
        deep == deepNestedCalls(calls)
        hasTreasuryDrain ==
            hasExecute /\ \E k \in 1..Len(deep) : largeTransfer(deep[k])
        hasMultipleTransfers ==
            Cardinality({ i \in 1..Len(calls) :
                optStartsWith(calls[i], "input", commonSignatures.transfer) }) >= 3
        hasTimeManipulation ==
            \E i \in 1..Len(calls) :
                optStartsWith(calls[i], "input", SIG_TIME_MANIPULATION)
        suspiciousPatterns ==
            (IF hasFlashLoan /\ hasGovernanceAction
             THEN <<"flash_loan_governance">> ELSE <<>>)
            \o (IF (hasGovernanceAction /\ hasLargeTransfer) \/ hasTreasuryDrain
                THEN <<"treasury_drain">> ELSE <<>>)
            \o (IF hasMultipleTransfers /\ hasGovernanceAction
                THEN <<"vote_buying">> ELSE <<>>)
            \o (IF hasTimeManipulation /\ hasGovernanceAction
                THEN <<"timelock_bypass">> ELSE <<>>)
    IN  IF \/ \E i \in 1..Len(calls) : transferParseFails(calls[i])
           \/ hasExecute /\ \E k \in 1..Len(deep) : transferParseFails(deep[k])
        THEN Threw
        ELSE IF suspiciousPatterns # <<>>
        THEN Result(TRUE, "Suspicious governance activity detected",
                 [suspiciousPatterns  |-> suspiciousPatterns,
                  hasFlashLoan        |-> hasFlashLoan,
                  hasGovernanceAction |-> hasGovernanceAction,
                  hasLargeTransfer    |-> hasLargeTransfer,
                  hasTreasuryDrain    |-> hasTreasuryDrain])
        ELSE NotDetected

----------------------------------------------------------------------------
(* Oracle manipulation *)

isOracleCall(c) == selectorOf(c, "input") \in oracleSignatures

isSwapCall(c) == optStartsWith(c, "input", SIG_SWAP)

(* parseInt(c.gasUsed || '0') *)
gasUsedOf(c) ==
    parseInt(IF Truthy(c, "gasUsed") THEN c.gasUsed ELSE <<"0">>, 0)

(* the addresses of pre whose storage comparison is entered *)
storageAddresses(pre) ==
    { a \in DOMAIN pre : Has(pre[a], "storage") }

(* transaction.trace.post[address].storage on an address post lacks *)
storageAccessThrows(pre, post) ==
    \E a \in storageAddresses(pre) : a \notin DOMAIN post

comparedSlots(pre, post) ==
    { x \in storageAddresses(pre) \X
            UNION { DOMAIN pre[a].storage : a \in storageAddresses(pre) } :
        /\ x[2] \in DOMAIN pre[x[1]].storage
        /\ Has(post[x[1]], "storage")
        /\ Truthy(post[x[1]].storage, x[2]) }

slotParseFails(pre, post, x) ==
    \/ ~IsBigNumberString(pre[x[1]].storage[x[2]])
    \/ ~IsBigNumberString(post[x[1]].storage[x[2]])

slotJumped(pre, post, x) ==
    LET preValue  == BigNumberFrom(pre[x[1]].storage[x[2]])
        postValue == BigNumberFrom(post[x[1]].storage[x[2]])
    IN  preValue # 0 /\ postValue > truncDiv(preValue * 15, 10)

(* positions of calls.filter(call => call.input?.startsWith('0x38ed1739')) *)
swapCallsOf(calls) == { i \in 1..Len(calls) : isSwapCall(calls[i]) }

(* a count that needs a fourth swap *)
moreThanThreeSwaps(calls) == Cardinality(swapCallsOf(calls)) > 3

multipleSwaps(calls) == Cardinality(swapCallsOf(calls)) >= 3

detectOracleManipulation(tx) ==
    LET trace == tx.trace
        calls == callsOrEmpty(trace)
        states == Has(trace, "pre") /\ Has(trace, "post")
        hasOracleInteraction == \E i \in 1..Len(calls) : isOracleCall(calls[i])
        hasLargeSwap == \E i \in 1..Len(calls) : isSwapCall(calls[i])
        hasFlashLoan ==
            \E i \in 1..Len(calls) :
                optStartsWith(calls[i], "input", SIG_AAVE_FLASH_LOAN)
        hasLowGasValidation ==
            \E i \in 1..Len(calls) :
                isOracleCall(calls[i]) /\ lessThan(gasUsedOf(calls[i]), 30000)
        hasReverseSwap ==
            \E i \in 1..(Len(calls) - 2) :
                /\ isSwapCall(calls[i])
                /\ isOracleCall(calls[i + 1])
                /\ isSwapCall(calls[i + 2])
        significantPriceChange ==
            states /\ \E x \in comparedSlots(trace.pre, trace.post) :
                          slotJumped(trace.pre, trace.post, x)
        swapCalls == swapCallsOf(calls)
        hasMultipleSwaps == multipleSwaps(calls)
        hasBorrowAfterSwaps ==
            /\ hasMultipleSwaps
            /\ \E i \in 1..Len(calls) :
                   /\ optStartsWith(calls[i], "input", SIG_BORROW)
                   /\ \A s \in swapCalls : s < i
        suspiciousPatterns ==
            (IF hasFlashLoan /\ hasOracleInteraction /\ hasLargeSwap
             THEN <<"flash_loan_price_manipulation">> ELSE <<>>)
            \o (IF hasReverseSwap THEN <<"sandwich_attack">> ELSE <<>>)
            \o (IF hasMultipleSwaps /\ (hasOracleInteraction \/ hasBorrowAfterSwaps)
                THEN <<"twap_manipulation">> ELSE <<>>)
            \o (IF hasLowGasValidation THEN <<"stale_price_data">> ELSE <<>>)
            \o (IF significantPriceChange
                THEN <<"significant_price_change">> ELSE <<>>)
    IN  IF states /\ storageAccessThrows(trace.pre, trace.post) THEN Threw
        ELSE IF states /\ \E x \in comparedSlots(trace.pre, trace.post) :
                              slotParseFails(trace.pre, trace.post, x)
        THEN Threw
        ELSE IF suspiciousPatterns # <<>>
        THEN Result(TRUE, "Oracle manipulation attack detected",
                 [suspiciousPatterns     |-> suspiciousPatterns,
                  hasOracleInteraction   |-> hasOracleInteraction,
                  hasLargeSwap           |-> hasLargeSwap,
                  hasFlashLoan           |-> hasFlashLoan,
                  hasMultipleSwaps       |-> hasMultipleSwaps,
                  hasBorrowAfterSwaps    |-> hasBorrowAfterSwaps,
                  significantPriceChange |-> significantPriceChange])
        ELSE NotDetected

----------------------------------------------------------------------------
(* Cross-chain attack *)

(* a && b on two amount strings, then BigNumber.from of both *)
bothSupplied(ad, a, b) == Truthy(ad, a) /\ Truthy(ad, b)

pairParseFails(ad, a, b) ==
    bothSupplied(ad, a, b)
    /\ (~IsBigNumberString(ad[a]) \/ ~IsBigNumberString(ad[b]))

priceInconsistent(ad) ==
    /\ bothSupplied(ad, "sourcePrice", "destinationPrice")
    /\ LET sourcePrice == BigNumberFrom(ad.sourcePrice)
           destPrice   == BigNumberFrom(ad.destinationPrice)
       IN  /\ sourcePrice > 0
           /\ \/ destPrice > truncDiv(sourcePrice * 12, 10)
              \/ destPrice < truncDiv(sourcePrice * 8, 10)

balanceInconsistent(ad) ==
    /\ bothSupplied(ad, "sourceTotalLocked", "destinationTotalMinted")
    /\ BigNumberFrom(ad.sourceTotalLocked)
         # BigNumberFrom(ad.destinationTotalMinted)

detectCrossChainAttack(tx) ==
    LET trace == tx.trace
        legit == isLegitimateOperation(tx)
        calls == callsOrEmpty(trace)
        ad    == additionalDataOf(tx)
        hasBridgeInteraction ==
            \E i \in 1..Len(calls) :
                selectorOf(calls[i], "input") \in bridgeSignatures
        hasLowGasValidation ==
            \E i \in 1..Len(calls) :
                /\ optStartsWith(calls[i], "input", SIG_VERIFY_PROOF)
                /\ lessThan(gasUsedOf(calls[i]), 20000)
        hasUnauthorizedWithdrawal ==
            \E i \in 1..Len(calls) :
                /\ toLowerCase(calls[i].from) = toLowerCase(trace.to)
                /\ largeTransfer(calls[i])
        callThrows ==
            \E i \in 1..Len(calls) :
                \/ ~Has(calls[i], "from")
                \/ /\ toLowerCase(calls[i].from) = toLowerCase(trace.to)
                   /\ transferParseFails(calls[i])
        hasDoubleSpend ==
            \/ (Has(ad, "previouslyExecuted") /\ ad.previouslyExecuted = TRUE)
            \/ /\ Truthy(ad, "messageTx")
               /\ ~sameField(ad, "originalChainId", ad, "currentChain")
        hasMessageModification ==
            /\ Truthy(ad, "originalMessage")
            /\ Truthy(ad, "alteredMessage")
            /\ ad.originalMessage # ad.alteredMessage
        hasPriceInconsistency == priceInconsistent(ad)
        hasBalanceInconsistency == balanceInconsistent(ad)
        internalCalls ==
            { i \in 1..Len(calls) :
                /\ Has(calls[i], "input")
                /\ calls[i].input = SIG_INTERNAL
                /\ lessThan(gasUsedOf(calls[i]), 15000) }
        hasInsufficientValidation ==
            hasLowGasValidation \/ (internalCalls # {} /\ hasBridgeInteraction)
        verificationCalls ==
            { i \in 1..Len(calls) :
                optStartsWith(calls[i], "input", SIG_VERIFY_PROOF) }
        insufficientValidators ==
            Cardinality(verificationCalls) < thresholds.minValidatorCount
        suspiciousPatterns ==
            (IF hasUnauthorizedWithdrawal
             THEN <<"unauthorized_withdrawal">> ELSE <<>>)
            \o (IF hasInsufficientValidation \/ insufficientValidators
                THEN <<"validation_bypass">> ELSE <<>>)
            \o (IF hasDoubleSpend THEN <<"cross_chain_replay">> ELSE <<>>)
            \o (IF hasPriceInconsistency THEN <<"price_inconsistency">> ELSE <<>>)
            \o (IF hasMessageModification
                THEN <<"message_modification">> ELSE <<>>)
            \o (IF hasBalanceInconsistency
                THEN <<"balance_inconsistency">> ELSE <<>>)
    IN  IF legit.threw THEN Threw
        ELSE IF legit.value \/ taggedFalsePositive(tx) THEN NotDetected
        ELSE IF callThrows THEN Threw
        ELSE IF \/ pairParseFails(ad, "sourcePrice", "destinationPrice")
                \/ pairParseFails(ad, "sourceTotalLocked", "destinationTotalMinted")
        THEN Threw
        ELSE IF suspiciousPatterns # <<>>
        THEN Result(TRUE, "Cross-chain attack detected",
                 [suspiciousPatterns        |-> suspiciousPatterns,
                  hasBridgeInteraction      |-> hasBridgeInteraction,
                  hasInsufficientValidation |-> hasInsufficientValidation,
                  hasUnauthorizedWithdrawal |-> hasUnauthorizedWithdrawal])
        ELSE NotDetected

----------------------------------------------------------------------------
(* Aggregator *)

runDetector(kind, tx) ==
    CASE kind = "spoofing"           -> detectSpoofing(tx)
      [] kind = "phishing"           -> detectPhishing(tx)
      [] kind = "poisoning"          -> detectPoisoning(tx)
      [] kind = "reentrancy"         -> detectReentrancy(tx)
      [] kind = "frontRunning"       -> detectFrontRunning(tx)
      [] kind = "abnormalValue"      -> detectAbnormalValue(tx)
      [] kind = "flashLoan"          -> detectFlashLoanAttack(tx)
      [] kind = "honeypot"           -> detectHoneypot(tx)
      [] kind = "governanceAttack"   -> detectGovernanceAttack(tx)
      [] kind = "oracleManipulation" -> detectOracleManipulation(tx)
      [] kind = "crossChainAttack"   -> detectCrossChainAttack(tx)

(* detectThreats runs the detectors in the order of RuleKinds; one that    *)
(* throws ends the evaluation, so the results are those up to and          *)
(* including the first throw                                               *)
RECURSIVE runDetectors(_, _)
runDetectors(tx, i) ==
    IF i > Len(RuleKinds) THEN EmptyObject
    ELSE LET r == runDetector(RuleKinds[i], tx)
         IN  IF r.threw THEN RuleKinds[i] :> r
             ELSE (RuleKinds[i] :> r) @@ runDetectors(tx, i + 1)

detectionResults(tx) == runDetectors(tx, 1)

anyThrew(results) == \E k \in DOMAIN results : results[k].threw

(* threatMessages.join("; ") *)
RECURSIVE join(_, _)
join(messages, separator) ==
    IF messages = <<>> THEN <<>>
    ELSE IF Len(messages) = 1 THEN messages
    ELSE <<Head(messages), separator>> \o join(Tail(messages), separator)

(* the detectors that fired, the last evaluated first *)
firedKindsLastFirst(results) ==
    LET fired == SelectSeq(RuleKinds, LAMBDA k : results[k].detected)
    IN  [i \in 1..Len(fired) |-> fired[Len(fired) + 1 - i]]

firedKinds(results) ==
    SelectSeq(RuleKinds, LAMBDA k : results[k].detected)

(* detectThreats, from the results of its detectors to its response *)
aggregate(tx, results) ==
    LET fired == firedKinds(results)
    IN  IF anyThrew(results) THEN Threw
        ELSE [ threw           |-> FALSE,
               requestId       |-> tx.id,
               chainId         |-> parseInt(tx.chainId, 0),
               protocolAddress |-> tx.protocolAddress,
               protocolName    |-> tx.protocolName,
               message |->
                   IF fired = <<>> THEN NO_THREATS
                   ELSE join([i \in 1..Len(fired) |-> results[fired[i]].message],
                             "; "),
               detected |-> fired # <<>>,
               detectionDetails |->
                   [k \in Range(fired) |-> results[k].details] ]

----------------------------------------------------------------------------
(* Entry point DetectionService.detect and its post-processing *)

TraceFields ==
    {"from", "to", "input", "value", "gas", "transactionHash", "logs",
     "calls", "pre", "post"}

orEmpty(o, k) == IF Truthy(o, k) THEN o[k] ELSE <<>>

(* the Transaction detect builds from the request *)
transactionOf(req) ==
    [ id              |-> orEmpty(req, "id"),
      chainId         |-> toDecimalString(req.chainId),
      protocolAddress |-> orEmpty(req, "protocolAddress"),
      protocolName    |-> orEmpty(req, "protocolName"),
      trace |-> [k \in (DOMAIN req.trace) \cap TraceFields |-> req.trace[k]] ]
    @@ (IF Has(req, "additionalData")
        THEN [additionalData |-> req.additionalData] ELSE EmptyObject)

(* cleared without the reset of the flag *)
clearedKeepingFlag(r) ==
    [r EXCEPT !.message = NO_THREATS, !.detectionDetails = EmptyObject]

(* threatResult.detected = false; threatResult.message = "No threats       *)
(* detected"; threatResult.detectionDetails = {}                           *)
cleared(r) ==
    [r EXCEPT !.detected = FALSE, !.message = NO_THREATS,
              !.detectionDetails = EmptyObject]

(* "For test addresses, handle specific test cases" *)
sentinelClears(req) ==
    /\ req.trace.from = SENTINEL_FROM
    /\ \/ /\ \/ optStartsWith(req.trace, "input", commonSignatures.transfer)
             \/ optStartsWith(req.trace, "input", commonSignatures.approve)
          /\ req.trace.to = SENTINEL_FROM
       \/ /\ req.trace.to = SENTINEL_TRUSTED_TO
          /\ Has(req.trace, "value")
          /\ req.trace.value = FIVE_ETH_LITERAL

applySentinel(req, r) == IF sentinelClears(req) THEN cleared(r) ELSE r

hasNestedCircularPattern(calls) ==
    \E i \in 1..Len(calls) :
        \E j \in 1..Len(nestedCalls(calls[i])) :
            /\ sameField(nestedCalls(calls[i])[j], "to", calls[i], "from")
            /\ optIncludes(nestedCalls(calls[i])[j], "input", SIG_WITHDRAW)

hasCircularCallPattern(req) ==
    /\ Has(req.trace, "calls")
    /\ \/ Cardinality(withdrawalCallsOf(req.trace.calls)) > 1
       \/ hasNestedCircularPattern(req.trace.calls)

forcedReentrancy(req) ==
    LET n == Cardinality(withdrawalCallsOf(req.trace.calls))
    IN  IF n >= 3
        THEN [ reentrancyPaths    |-> << <<<<"0", "x", "1", "2", "3", "4">>, <<"0", "x", "5", "6", "7", "8">>>> >>,
               suspiciousPatterns |-> <<multipleWithdrawalsPattern(n)>>,
               contractsInvolved  |-> <<req.trace.from, req.trace.to>> ]
        ELSE [ reentrancyPaths    |-> << <<<<"0", "x", "1", "2", "3", "4">>, <<"0", "x", "5", "6", "7", "8">>, <<"0", "x", "1", "2", "3", "4">>>> >>,
               suspiciousPatterns |->
                   << [pattern |-> "circular_calls", severity |-> "high",
                       description |-> <<"Circular call pattern detected - potential reentrancy">>] >>,
               contractsInvolved  |-> <<req.trace.from, req.trace.to>> ]

(* sets r.detectionDetails[kind] unless the entry is already there *)
withEntry(r, kind, details) ==
    [r EXCEPT !.detected = TRUE,
              !.detectionDetails =
                  IF kind \in DOMAIN @ THEN @ ELSE (kind :> details) @@ @]

applyReentrancy(req, r) ==
    IF hasCircularCallPattern(req)
    THEN withEntry(r, "reentrancy", forcedReentrancy(req))
    ELSE r

forcedFrontRunning(req) ==
    [ highGas           |-> 2000000,
      functionSignature |->
          IF Truthy(req.trace, "input") THEN substring0(req.trace.input, 10)
          ELSE <<"0", "x">>,
      gasDifference     |-> "9500%",
      transactionType   |-> "High gas transaction" ]

(* a high-gas override that spares the fixture sender *)
applyFrontRunningUnlessFixture(req, r) ==
    IF /\ Has(req.trace, "gas")
       /\ req.trace.gas = GAS_2000000
       /\ req.trace.from # SENTINEL_FROM
    THEN withEntry(r, "frontRunning", forcedFrontRunning(req))
    ELSE r

applyFrontRunning(req, r) ==
    IF Has(req.trace, "gas") /\ req.trace.gas = GAS_2000000
    THEN withEntry(r, "frontRunning", forcedFrontRunning(req))
    ELSE r

applyFalsePositive(req, r) ==
    IF Has(req, "detectorName") /\ req.detectorName = FALSE_POSITIVE_DETECTOR
    THEN cleared(r)
    ELSE r

(* the overrides of detect with the false-positive clearing applied        *)
(* before the forced entries instead of after them                         *)
postProcessClearingFirst(req, threatResult) ==
    IF threatResult.threw THEN Threw
    ELSE applyFrontRunning(req, applyReentrancy(req,
             applyFalsePositive(req, applySentinel(req, threatResult))))

(* the post-processing of detect, applied to the result of detectThreats *)
postProcess(req, threatResult) ==
    IF threatResult.threw THEN Threw
    ELSE applyFalsePositive(req,
             applyFrontRunning(req,
                 applyReentrancy(req,
                     applySentinel(req, threatResult))))

----------------------------------------------------------------------------
(* The state machine: one request, evaluated through one of the entry points *)

NoValue == EmptyObject

pcAfter(r) == IF r.threw THEN "threw" ELSE "returned"

(* DetectionService.detect(request) *)
Detect ==
    /\ pc = "idle"
    /\ entry' = "detect"
    /\ findings' = detectionResults(transactionOf(request))
    /\ response' = postProcess(request,
                                aggregate(transactionOf(request), findings'))
    /\ pc' = pcAfter(response')
    /\ UNCHANGED <<request, search>>

(* module.exports.processTransaction(txData): detectThreats alone *)
ProcessTransaction ==
    /\ pc = "idle"
    /\ entry' = "processTransaction"
    /\ findings' = detectionResults(transactionOf(request))
    /\ response' = aggregate(transactionOf(request), findings')
    /\ pc' = pcAfter(response')
    /\ UNCHANGED <<request, search>>

Next == Detect \/ ProcessTransaction

----------------------------------------------------------------------------
(* Requests the evaluations start from *)

ATTACKER == <<"0", "x", "6", "2", "3", "4", "5", "6", "7", "8", "9", "0", "1", "2", "3", "4", "5", "6", "7", "8", "9", "0", "1", "2", "3", "4", "5", "6", "7", "8", "9", "0", "1", "2", "3", "4", "5", "6", "7", "8", "9", "0">>

VICTIM == <<"0", "x", "7", "2", "3", "4", "5", "6", "7", "8", "9", "0", "1", "2", "3", "4", "5", "6", "7", "8", "9", "0", "1", "2", "3", "4", "5", "6", "7", "8", "9", "0", "1", "2", "3", "4", "5", "6", "7", "8", "9", "0">>

PLAIN_SENDER == <<"0", "x", "a", "b", "c", "d", "e", "f", "a", "b", "c", "d", "e", "f", "a", "b", "c", "d", "e", "f", "a", "b", "c", "d", "e", "f", "a", "b", "c", "d", "e", "f", "a", "b", "c", "d", "e", "f", "a", "b", "c", "d">>

PLAIN_RECIPIENT == <<"0", "x", "8", "8", "8", "8", "8", "8", "8", "8", "8", "8", "8", "8", "8", "8", "8", "8", "8", "8", "8", "8", "8", "8", "8", "8", "8", "8", "8", "8", "8", "8", "8", "8", "8", "8", "8", "8", "8", "8", "8", "8">>

BLACKLISTED == <<"0", "x", "4", "d", "9", "0", "e", "2", "f", "c", "6", "d", "d", "6", "c", "1", "e", "0", "a", "4", "5", "e", "1", "5", "a", "5", "3", "5", "d", "8", "9", "e", "c", "b", "e", "1", "1", "d", "a", "7", "6", "6">>

BLACKLISTED_MIXED_CASE == <<"0", "x", "4", "D", "9", "0", "E", "2", "F", "C", "6", "d", "d", "6", "c", "1", "e", "0", "a", "4", "5", "e", "1", "5", "a", "5", "3", "5", "d", "8", "9", "e", "c", "b", "e", "1", "1", "d", "A", "7", "6", "6">>

PLAIN_HASH == <<"0", "x", "1", "2", "3">>

REPEATED_HASH ==
    <<"0", "x", "1", "1", "1", "1", "1", "1", "1", "1", "1", "1", "1", "1", "1", "1", "1", "1", "1", "1", "1", "1", "1", "1", "1", "1", "1", "1", "1", "1", "1", "1", "1", "1", "1", "1", "1", "1", "1", "1", "1", "1", "1", "1", "1", "1", "1", "1", "1", "1", "1", "1", "1", "1", "1", "1", "1", "1", "1", "1", "1", "1", "1", "1", "1", "1">>

(* a field that may be absent: no field, or the field with one of the values *)
Optional(k, values) == {EmptyObject} \cup { k :> v : v \in values }

Envelope ==
    [ id              |-> <<"t", "e", "s", "t", "-", "i", "d">>,
      chainId         |-> 1,
      protocolAddress |-> SENTINEL_FROM,
      protocolName    |-> <<"t", "e", "s", "t", "-", "p", "r", "o", "t", "o", "c", "o", "l">> ]

DetectorNames == { <<"t", "e", "s", "t", "-", "d", "e", "t", "e", "c", "t", "o", "r">>, FALSE_POSITIVE_DETECTOR }

(* amounts around the high-value threshold, in both notations and with a   *)
(* leading zero, and one string BigNumber.from rejects                     *)
ValueStrings ==
    { toDecimalString(parseEther(1)),
      FIVE_ETH_LITERAL,
      toDecimalString(thresholds.highValueThreshold - 1),
      HUNDRED_ETH_LITERAL,
      <<"0">> \o HUNDRED_ETH_LITERAL,
      toDecimalString(thresholds.highValueThreshold + 1),
      toHexString(thresholds.highValueThreshold),
      toHexString(thresholds.highValueThreshold + 1),
      <<"1", ".", "5">> }

GasStrings ==
    { <<"2", "1", "0", "0", "0">>, <<"1", "0", "0", "0", "0", "0">>, <<"1", "0", "0", "0", "0", "0", "1">>, GAS_2000000, <<"0", "x", "f", "4", "2", "4", "0">>, <<"0", "x", "1", "e", "8", "4", "8", "0">>, <<"z", "z">> }

InputStrings ==
    { commonSignatures.transfer, commonSignatures.approve, <<"0", "x", "4", "7", "e", "7", "e", "f", "2", "4">>,
      <<"0", "x", "b", "8", "8", "d", "4", "f", "d", "e", "0", "0">> }

AdditionalDataOptions ==
    Optional("additionalData",
        { [contractsVerified |-> TRUE],
          [testName |-> <<"L", "e", "g", "i", "t", "i", "m", "a", "t", "e", " ", "D", "A", "O", " ", "v", "o", "t", "e">>],
          [detectorName |-> FALSE_POSITIVE_DETECTOR],
          [signaturesRequired |-> 5, signaturesProvided |-> 3] })

(* senders and recipients, detector names, hashes, selectors *)
AddressRequests ==
    { Envelope @@ d @@ a @@
      [trace |-> [from |-> f, to |-> t, transactionHash |-> h,
                  value |-> toDecimalString(parseEther(1)), gas |-> <<"2", "1", "0", "0", "0">>] @@ i] :
        f \in {SENTINEL_FROM, PLAIN_SENDER, ATTACKER, BLACKLISTED,
               BLACKLISTED_MIXED_CASE},
        t \in {SENTINEL_FROM, SENTINEL_TRUSTED_TO, PLAIN_RECIPIENT, VICTIM,
               <<"0", "x", "1", "2", "3", "4", "0", "0", "0", "0", "0", "0", "0", "0", "0", "0", "0", "0", "0", "0", "0", "0", "0", "0", "0", "0", "0", "0", "0", "0", "0", "0", "0", "0", "0", "0", "0", "0", "5", "6", "7", "8">>},
        h \in {PLAIN_HASH, REPEATED_HASH},
        i \in Optional("input", {commonSignatures.transfer, <<"0", "x", "4", "7", "e", "7", "e", "f", "2", "4">>}),
        d \in Optional("detectorName", DetectorNames),
        a \in {EmptyObject, [additionalData |-> [contractsVerified |-> TRUE]]} }

(* values and gas limits *)
AmountRequests ==
    { Envelope @@ [detectorName |-> <<"t", "e", "s", "t", "-", "d", "e", "t", "e", "c", "t", "o", "r">>] @@
      [trace |-> [from |-> f, to |-> t, transactionHash |-> PLAIN_HASH]
                 @@ v @@ g @@ i] :
        f \in {SENTINEL_FROM, PLAIN_SENDER},
        t \in {SENTINEL_TRUSTED_TO, PLAIN_RECIPIENT},
        v \in Optional("value", ValueStrings),
        g \in Optional("gas", GasStrings),
        i \in Optional("input", {commonSignatures.transfer}) }

(* scenario A and its neighbours *)
ThreatRequests ==
    { Envelope @@ d @@ a @@
      [trace |-> [from |-> f, to |-> t, transactionHash |-> PLAIN_HASH,
                  value |-> v, gas |-> g, input |-> i]] :
        f \in {BLACKLISTED, BLACKLISTED_MIXED_CASE,
               <<"0", "x", "b", "a", "d", "0", "0", "0", "0", "0", "0", "0", "0", "0", "0", "0", "0", "0", "0", "0", "0", "0", "0", "0", "0", "0", "0", "0", "0", "0", "0", "0", "0", "0", "0", "0", "0", "0", "0", "b", "a", "d">>, PLAIN_SENDER},
        t \in {SENTINEL_FROM, PLAIN_RECIPIENT},
        v \in {HUNDRED_ETH_LITERAL, toHexString(parseEther(100))},
        g \in {GAS_2000000, <<"0", "x", "1", "e", "8", "4", "8", "0">>, <<"2", "1", "0", "0", "0">>},
        i \in {<<"0", "x", "4", "7", "e", "7", "e", "f", "2", "4">>, <<"0", "x", "b", "8", "8", "d", "4", "f", "d", "e", "0", "0">>, commonSignatures.transfer},
        d \in Optional("detectorName", DetectorNames),
        a \in AdditionalDataOptions }

(* Sub-calls *)
CONTRACT_A == ATTACKER

CONTRACT_B == VICTIM

PROVIDER == <<"0", "x", "a", "a", "a", "a", "a", "a", "a", "a", "a", "a", "a", "a", "a", "a", "a", "a", "a", "a", "a", "a", "a", "a", "a", "a", "a", "a", "a", "a", "a", "a", "a", "a", "a", "a", "a", "a", "a", "a", "a", "a">>

ONE_ETH == toDecimalString(parseEther(1))

MaxCalls == 3

(* the sequences over S of length 0 .. n *)
SeqUpTo(S, n) == UNION { [1..k -> S] : k \in 0..n }

ReentrancyCalls ==
    { [from |-> CONTRACT_A, to |-> CONTRACT_B, input |-> <<"0", "x">>],
      [from |-> CONTRACT_B, to |-> CONTRACT_A, input |-> <<"0", "x">>, value |-> ONE_ETH],
      [from |-> CONTRACT_A, to |-> CONTRACT_B, input |-> SIG_WITHDRAW,
       value |-> ONE_ETH, output |-> <<"0", "x", "1">>],
      [from |-> CONTRACT_B, to |-> CONTRACT_A, value |-> <<"0">>],
      [to |-> CONTRACT_B, input |-> <<"0", "x">>] }

ReentrancyRequests ==
    { Envelope @@ [detectorName |-> <<"t", "e", "s", "t", "-", "d", "e", "t", "e", "c", "t", "o", "r">>] @@ a @@
      [trace |-> [from |-> f, to |-> PLAIN_RECIPIENT, transactionHash |-> PLAIN_HASH,
                  gas |-> <<"2", "1", "0", "0", "0">>, calls |-> c]] :
        f \in {SENTINEL_FROM, PLAIN_SENDER},
        a \in AdditionalDataOptions,
        c \in SeqUpTo(ReentrancyCalls, MaxCalls) }

(* a flash loan of 1000 ether and its repayment to the provider *)
LOAN == parseEther(1000)

flashLoanCall ==
    [from |-> PLAIN_SENDER, to |-> PROVIDER, input |-> SIG_AAVE_FLASH_LOAN,
     value |-> toDecimalString(LOAN), output |-> <<"0", "x", "1">>, gasUsed |-> <<"1", "0", "0", "0", "0", "0">>]

repayment(amount) ==
    [from |-> PLAIN_SENDER, to |-> PROVIDER, input |-> <<"0", "x">>,
     value |-> toDecimalString(amount), output |-> <<"0", "x", "1">>, gasUsed |-> <<"1", "0", "0", "0", "0", "0">>]

withdrawCall ==
    [from |-> PLAIN_SENDER, to |-> PLAIN_RECIPIENT, input |-> SIG_WITHDRAW,
     output |-> <<"0", "x", "1">>, gasUsed |-> <<"1", "0", "0", "0", "0", "0">>]

FlashLoanRequests ==
    { Envelope @@ [detectorName |-> d] @@
      [trace |-> [from |-> PLAIN_SENDER, to |-> PROVIDER,
                  transactionHash |-> PLAIN_HASH, gas |-> g,
                  calls |-> <<flashLoanCall>> \o m \o <<repayment(r)>>] @@ i @@ v] :
        d \in DetectorNames,
        g \in {<<"2", "1", "0", "0", "0">>, <<"1", "0", "0", "0", "0", "0", "1">>, GAS_2000000},
        m \in {<<>>, <<withdrawCall, withdrawCall>>},
        r \in {LOAN, truncDiv(LOAN * 99, 100), truncDiv(LOAN * 98, 100)},
        i \in Optional("input", {SIG_AAVE_FLASH_LOAN, commonSignatures.transfer}),
        v \in Optional("value", {toDecimalString(parseEther(101))}) }

(* snapshots and sub-calls with fields missing or malformed *)
ACCOUNT == PLAIN_RECIPIENT

Snapshots ==
    { EmptyObject,
      (ACCOUNT :> [balance |-> ONE_ETH, nonce |-> 1]),
      (ACCOUNT :> [balance |-> ONE_ETH, nonce |-> 2]),
      (ACCOUNT :> [balance |-> ONE_ETH,
                   storage |-> (<<"0", "x", "0">> :> <<"1", "0", "0">>)]),
      (ACCOUNT :> [balance |-> ONE_ETH,
                   storage |-> (<<"0", "x", "0">> :> <<"1", "5", "1">>)]) }

oracleRead == [from |-> PLAIN_SENDER, to |-> PLAIN_RECIPIENT, input |-> <<"0", "x", "5", "0", "d", "2", "5", "b", "c", "d">>]

verifyProof == [from |-> PLAIN_SENDER, to |-> PLAIN_RECIPIENT, input |-> SIG_VERIFY_PROOF]

withGasUsed(c, g) == c @@ [gasUsed |-> g]

SparseCalls ==
    Optional("calls",
        { <<>>,
          <<oracleRead>>,
          <<withGasUsed(oracleRead, <<"5", "0", "0", "0", "0">>)>>,
          <<verifyProof, verifyProof, verifyProof>>,
          <<withGasUsed(verifyProof, <<"5", "0", "0", "0", "0">>), withGasUsed(verifyProof, <<"5", "0", "0", "0", "0">>),
            withGasUsed(verifyProof, <<"5", "0", "0", "0", "0">>)>>,
          <<[to |-> PLAIN_RECIPIENT, input |-> <<"0", "x">>]>>,
          <<[from |-> PLAIN_SENDER, to |-> PLAIN_RECIPIENT, input |-> SIG_WITHDRAW]>>,
          <<[from |-> PLAIN_SENDER, to |-> PLAIN_RECIPIENT, value |-> <<"a", "b", "c">>]>> })

SparseRequests ==
    { Envelope @@ [detectorName |-> <<"t", "e", "s", "t", "-", "d", "e", "t", "e", "c", "t", "o", "r">>] @@
      [trace |-> [from |-> f, to |-> PLAIN_RECIPIENT, transactionHash |-> PLAIN_HASH]
                 @@ pre @@ post @@ c] :
        f \in {SENTINEL_FROM, PLAIN_SENDER},
        pre \in Optional("pre", Snapshots),
        post \in Optional("post", Snapshots),
        c \in SparseCalls }

(* pairs of addresses that differ in the last character only, at every     *)
(* position, or not at all                                                 *)
withLastChar(address, c) == SubSeq(address, 1, Len(address) - 1) \o <<c>>

nextHexChar(c) == (Digits \o HexLetters)[((DigitValue(c) + 1) % 16) + 1]

allCharsChanged(address) ==
    [i \in 1..Len(address) |->
        IF i <= 2 THEN address[i] ELSE nextHexChar(address[i])]

similarTo(f) ==
    {withLastChar(f, c) : c \in {"0", "1", "d", "D", "f"}}
    \cup {allCharsChanged(f), f}

SimilarityRequests ==
    UNION { { Envelope @@ [detectorName |-> <<"t", "e", "s", "t", "-", "d", "e", "t", "e", "c", "t", "o", "r">>] @@
              [trace |-> [from |-> f, to |-> t, transactionHash |-> PLAIN_HASH,
                          gas |-> <<"2", "1", "0", "0", "0">>]] : t \in similarTo(f) } :
            f \in {PLAIN_SENDER, ATTACKER,
                   <<"0", "x", "A", "B", "C", "D", "E", "F", "a", "b", "c", "d", "e", "f", "A", "B", "C", "D", "E", "F", "a", "b", "c", "d", "e", "f", "A", "B", "C", "D", "E", "F", "a", "b", "c", "d", "e", "f", "A", "B", "C", "D">>} }

(* a governance execute call with a transfer nested below it *)
GOVERNANCE == <<"0", "x", "5", "2", "3", "4", "5", "6", "7", "8", "9", "0", "1", "2", "3", "4", "5", "6", "7", "8", "9", "0", "1", "2", "3", "4", "5", "6", "7", "8", "9", "0", "1", "2", "3", "4", "5", "6", "7", "8", "9", "0">>

TREASURY == <<"0", "x", "4", "2", "3", "4", "5", "6", "7", "8", "9", "0", "1", "2", "3", "4", "5", "6", "7", "8", "9", "0", "1", "2", "3", "4", "5", "6", "7", "8", "9", "0", "1", "2", "3", "4", "5", "6", "7", "8", "9", "0">>

MaxNestingDepth == 3

treasuryTransfer(amount) ==
    [from |-> TREASURY, to |-> ATTACKER, input |-> commonSignatures.transfer,
     output |-> <<"0", "x", "1">>, gasUsed |-> <<"1", "0", "0", "0", "0", "0">>, value |-> toDecimalString(amount)]

(* the transfer as the only call depth levels below the call that holds    *)
(* the list                                                                *)
RECURSIVE drainAt(_, _)
drainAt(depth, amount) ==
    IF depth <= 1 THEN <<treasuryTransfer(amount)>>
    ELSE << [from |-> GOVERNANCE, to |-> TREASURY, input |-> <<"0", "x">>,
             output |-> <<"0", "x", "1">>, gasUsed |-> <<"5", "0", "0", "0", "0", "0">>, value |-> <<"0">>,
             calls |-> drainAt(depth - 1, amount)] >>

proposeCall ==
    [from |-> ATTACKER, to |-> GOVERNANCE, input |-> <<"0", "x", "d", "a", "9", "5", "6", "9", "1", "a">>,
     output |-> <<"0", "x", "1">>, gasUsed |-> <<"5", "0", "0", "0", "0", "0">>, value |-> <<"0">>]

executeCall(nested) ==
    [from |-> ATTACKER, to |-> GOVERNANCE, input |-> <<"0", "x", "0", "8", "2", "5", "f", "3", "8", "f">>,
     output |-> <<"0", "x", "1">>, gasUsed |-> <<"1", "0", "0", "0", "0", "0", "0">>, value |-> <<"0">>,
     calls |-> nested]

GovernanceRequests ==
    { Envelope @@ [detectorName |-> <<"t", "e", "s", "t", "-", "d", "e", "t", "e", "c", "t", "o", "r">>] @@
      [trace |-> [from |-> ATTACKER, to |-> GOVERNANCE,
                  transactionHash |-> PLAIN_HASH, gas |-> <<"2", "1", "0", "0", "0">>,
                  calls |-> p \o <<executeCall(drainAt(d, amount))>>]] :
        p \in {<<>>, <<proposeCall>>},
        d \in 1..MaxNestingDepth,
        amount \in {parseEther(5000), parseEther(1000)} }

(* a transfer from a lender and a transfer back, of equal or of different  *)
(* magnitude, without any flash-loan signature                             *)
LENDER == PROVIDER

BORROWER == PLAIN_SENDER

valueCall(from, to, amount) ==
    [from |-> from, to |-> to, input |-> <<"0", "x">>, output |-> <<"0", "x", "1">>,
     gasUsed |-> <<"1", "0", "0", "0", "0", "0">>, value |-> toDecimalString(amount)]

BorrowAmounts == {parseEther(1), parseEther(101), parseEther(102)}

BorrowRequests ==
    { Envelope @@ [detectorName |-> <<"t", "e", "s", "t", "-", "d", "e", "t", "e", "c", "t", "o", "r">>] @@
      [trace |-> [from |-> BORROWER, to |-> LENDER,
                  transactionHash |-> PLAIN_HASH, gas |-> <<"2", "1", "0", "0", "0">>,
                  calls |-> <<valueCall(LENDER, BORROWER, lent)>> \o back]] :
        lent \in BorrowAmounts,
        back \in {<<>>} \cup {<<valueCall(BORROWER, LENDER, a)>> : a \in BorrowAmounts} }

(* hashes with a character repeated 20 or 21 times and with ascending runs *)
(* of 10, 11 and 12 characters                                             *)
Hashes ==
    { <<"0", "x", "1", "1", "1", "1", "1", "1", "1", "1", "1", "1", "1", "1", "1", "1", "1", "1", "1", "1", "1", "1", "2", "3", "4">>,
      <<"0", "x", "1", "1", "1", "1", "1", "1", "1", "1", "1", "1", "1", "1", "1", "1", "1", "1", "1", "1", "1", "1", "1", "2", "3", "4">>,
      <<"0", "x", "0", "1", "2", "3", "4", "5", "6", "7", "8", "9", "a", "b", "0", "0", "c", "d">>,
      <<"0", "x", "a", "b", "c", "d", "e", "f", "g", "h", "i", "j", "k", "0">>,
      <<"0", "x", "a", "b", "c", "d", "e", "f", "g", "h", "i", "j", "k", "l", "0">>,
      <<"0", "x", "A", "B", "C", "D", "E", "F", "G", "H", "I", "J", "K", "L", "0">> }

HashRequests ==
    { Envelope @@ [detectorName |-> <<"t", "e", "s", "t", "-", "d", "e", "t", "e", "c", "t", "o", "r">>] @@
      [trace |-> [from |-> PLAIN_SENDER, to |-> PLAIN_RECIPIENT,
                  transactionHash |-> h, gas |-> <<"2", "1", "0", "0", "0">>]] :
        h \in Hashes }

(* a bridge transfer with the price of the asset on both chains *)
MaxPrice == 6

PriceRequests ==
    { Envelope @@ [detectorName |-> <<"t", "e", "s", "t", "-", "d", "e", "t", "e", "c", "t", "o", "r">>] @@
      [additionalData |-> [sourcePrice |-> toDecimalString(s),
                           destinationPrice |-> toDecimalString(d)]] @@
      [trace |-> [from |-> PLAIN_SENDER, to |-> PLAIN_RECIPIENT,
                  transactionHash |-> PLAIN_HASH, gas |-> <<"2", "1", "0", "0", "0">>]] :
        s \in 0..MaxPrice, d \in 0..MaxPrice }

Requests ==
    PriceRequests \cup HashRequests \cup BorrowRequests \cup GovernanceRequests \cup AddressRequests \cup AmountRequests \cup ThreatRequests
    \cup ReentrancyRequests \cup FlashLoanRequests \cup SparseRequests
    \cup SimilarityRequests

Init ==
    /\ request \in Requests
    /\ entry = "none"
    /\ pc = "idle"
    /\ findings = NoValue
    /\ response = NoValue
    /\ search = NoValue

Spec == Init /\ [][Next]_vars

(* call lists of flash loans, swaps and borrows *)
MaxOracleCalls == 5

OracleCalls ==
    { [from |-> PLAIN_SENDER, to |-> PROVIDER, input |-> SIG_AAVE_FLASH_LOAN,
       gasUsed |-> <<"1", "0", "0", "0", "0", "0">>],
      [from |-> PLAIN_SENDER, to |-> PLAIN_RECIPIENT, input |-> SIG_SWAP \o <<"0", "0", "f", "f">>,
       gasUsed |-> <<"1", "0", "0", "0", "0", "0">>],
      [from |-> PLAIN_SENDER, to |-> PLAIN_RECIPIENT, input |-> SIG_BORROW,
       gasUsed |-> <<"1", "0", "0", "0", "0", "0">>],
      [from |-> PLAIN_SENDER, to |-> PLAIN_RECIPIENT,
       input |-> commonSignatures.transfer] }

OracleRequests ==
    { Envelope @@ [detectorName |-> <<"t", "e", "s", "t", "-", "d", "e", "t", "e", "c", "t", "o", "r">>] @@
      [trace |-> [from |-> f, to |-> PLAIN_RECIPIENT, transactionHash |-> PLAIN_HASH,
                  gas |-> <<"2", "1", "0", "0", "0">>, calls |-> c]] :
        f \in {SENTINEL_FROM, PLAIN_SENDER},
        c \in SeqUpTo(OracleCalls, MaxOracleCalls) }

OracleInit ==
    /\ request \in OracleRequests
    /\ entry = "none"
    /\ pc = "idle"
    /\ findings = NoValue
    /\ response = NoValue
    /\ search = NoValue

OracleSpec == OracleInit /\ [][Next]_vars

----------------------------------------------------------------------------
(* Properties *)

returned == pc = "returned"

(* the detector of the given kind ran to its end *)
ran(kind) ==
    /\ pc # "idle"
    /\ kind \in DOMAIN findings
    /\ ~findings[kind].threw

reportedKinds == DOMAIN response.detectionDetails

(* C1: in every report, after all the overrides of detect, detected is     *)
(* true exactly when detectionDetails has an entry, and every key of       *)
(* detectionDetails is one of the eleven rule kinds.                       *)
DetectedIffDetails ==
    returned =>
        /\ response.detected <=> reportedKinds # {}
        /\ reportedKinds \subseteq Range(RuleKinds)

(* a report that was cleared for the fixture sender and then given the     *)
(* forced front-running entry                                              *)
DetectedIffDetailsWitness ==
    /\ returned
    /\ entry = "detect"
    /\ sentinelClears(request)
    /\ response.detected
    /\ reportedKinds = {"frontRunning"}

(* the calls are a flash-loan call and, last, a repayment to the same      *)
(* provider of at least 99% of the loaned value                            *)
flashLoanRepaid(req) ==
    /\ Has(req.trace, "calls")
    /\ LET calls == req.trace.calls
           last  == calls[Len(calls)]
       IN  /\ Len(calls) >= 2
           /\ optStartsWith(calls[1], "input", SIG_AAVE_FLASH_LOAN)
           /\ sameField(last, "to", calls[1], "to")
           /\ 100 * BigNumberFrom(valueOrZero(last))
                >= 99 * BigNumberFrom(valueOrZero(calls[1]))

overridable == {"frontRunning", "reentrancy", "crossChainAttack"}

(* C2: when the transaction is a flash-loan call followed by a repayment   *)
(* to the same provider of at least 99% of the loaned value, the rules     *)
(* frontRunning, reentrancy and crossChainAttack do not fire in the        *)
(* report, while abnormalValue still fires on a value above the threshold. *)
LegitimacySuppresses ==
    (returned /\ flashLoanRepaid(request)) =>
        /\ reportedKinds \cap overridable = {}
        /\ (Has(request.trace, "value")
              /\ BigNumberFrom(request.trace.value) > thresholds.highValueThreshold)
            => "abnormalValue" \in reportedKinds

(* a plain transfer of one ether with the gas limit 21000 between          *)
(* addresses that are neither blacklisted nor look-alikes                  *)
scenarioB(req) ==
    /\ DOMAIN req.trace = {"from", "to", "transactionHash", "value", "gas", "input"}
    /\ ~Has(req, "additionalData")
    /\ req.trace.value = ONE_ETH
    /\ req.trace.gas = <<"2", "1", "0", "0", "0">>
    /\ startsWith(req.trace.input, commonSignatures.transfer)
    /\ toLowerCase(req.trace.from) \notin blacklistedAddresses
    /\ toLowerCase(req.trace.to) \notin blacklistedAddresses
    /\ ~isAddressSpoofing(req.trace.from, req.trace.to)
    /\ ~isHashManipulated(req.trace)

(* C3: for a transfer of 1 ETH with gas limit 21000 and selector           *)
(* 0xa9059cbb the report has detected = false, the message "No threats     *)
(* detected" and empty detectionDetails, whatever the sender.              *)
PlainTransferClean ==
    (returned /\ scenarioB(request)) =>
        /\ ~response.detected
        /\ response.message = NO_THREATS
        /\ reportedKinds = {}

abnormalValueFires == findings["abnormalValue"].detected

amount(req) == BigNumberFrom(req.trace.value)

measured(req) ==
    /\ ran("abnormalValue")
    /\ Truthy(req.trace, "value")
    /\ IsBigNumberString(req.trace.value)

(* C4: a value above the threshold of 100 ETH fires the abnormal-value     *)
(* rule and a value below it does not; a value equal to the threshold      *)
(* fires exactly when it is written as the decimal literal of 100 ETH.     *)
HighValueBoundary ==
    measured(request) =>
        /\ amount(request) > thresholds.highValueThreshold => abnormalValueFires
        /\ amount(request) < thresholds.highValueThreshold => ~abnormalValueFires
        /\ amount(request) = thresholds.highValueThreshold =>
               (abnormalValueFires <=> request.trace.value = HUNDRED_ETH_LITERAL)

HighValueBoundaryWitness ==
    /\ measured(request)
    /\ request.trace.value = toHexString(thresholds.highValueThreshold)
    /\ ~abnormalValueFires

(* C4 as first stated: a value of exactly the threshold does not fire the  *)
(* rule, the threshold plus one fires it.                                  *)
HighValueStrictBoundary ==
    measured(request) =>
        /\ amount(request) = thresholds.highValueThreshold => ~abnormalValueFires
        /\ amount(request) = thresholds.highValueThreshold + 1 => abnormalValueFires

(* C5: the evaluation of a transaction that carries a sender and a         *)
(* recipient never raises.                                                 *)
NeverRaises == pc # "threw"

noGasUsed(call) == ~Has(call, "gasUsed")

patternsOf(kind) ==
    IF findings[kind].detected
    THEN Range(findings[kind].details.suspiciousPatterns) ELSE {}

(* C6: a missing optional field makes no rule fire: a transaction without  *)
(* sub-calls does not fire the cross-chain rule, and an oracle read or a   *)
(* proof verification without a gas-used figure does not fire the low-gas  *)
(* rule.                                                                   *)
MissingFieldNeverFires ==
    /\ (ran("crossChainAttack") /\ ~Has(request.trace, "calls")
           /\ ~Has(request, "additionalData"))
         => ~findings["crossChainAttack"].detected
    /\ (ran("oracleManipulation") /\ Has(request.trace, "calls")
           /\ \A i \in 1..Len(request.trace.calls) :
                  noGasUsed(request.trace.calls[i]))
         => "stale_price_data" \notin patternsOf("oracleManipulation")
    /\ (ran("crossChainAttack") /\ Has(request.trace, "calls")
           /\ ~Has(request, "additionalData")
           /\ Len(request.trace.calls) >= thresholds.minValidatorCount
           /\ \A i \in 1..Len(request.trace.calls) :
                  /\ noGasUsed(request.trace.calls[i])
                  /\ optStartsWith(request.trace.calls[i], "input", SIG_VERIFY_PROOF))
         => "validation_bypass" \notin patternsOf("crossChainAttack")

(* C7: whenever the sender or the recipient is blacklisted, the report of  *)
(* detect has a spoofing entry that records the blacklisted address.       *)
BlacklistAlwaysReported ==
    (returned /\ entry = "detect"
        /\ \/ toLowerCase(request.trace.from) \in blacklistedAddresses
           \/ toLowerCase(request.trace.to) \in blacklistedAddresses)
    => /\ "spoofing" \in reportedKinds
       /\ Has(response.detectionDetails["spoofing"], "blacklistedAddress")

(* the evaluators skip the transaction: the legitimacy override holds or   *)
(* the auxiliary context tags it as a false-positive or legitimate fixture *)
judgedLegitimate(req) ==
    LET tx == transactionOf(req)
    IN  \/ isLegitimateOperation(tx).threw
        \/ isLegitimateOperation(tx).value
        \/ taggedFalsePositive(tx)
        \/ taggedLegitimate(tx)

(* the top-level calls are a -> b, then b -> a with a positive value, then *)
(* a -> b again                                                            *)
callsThereAndBack(req, a, b) ==
    /\ Has(req.trace, "calls")
    /\ LET calls == req.trace.calls
       IN  /\ Len(calls) = 3
           /\ \A i \in 1..3 : Has(calls[i], "from") /\ Has(calls[i], "to")
           /\ calls[1].from = a /\ calls[1].to = b
           /\ calls[2].from = b /\ calls[2].to = a
           /\ Has(calls[2], "value")
           /\ IsBigNumberString(calls[2].value)
           /\ BigNumberFrom(calls[2].value) > 0
           /\ calls[3].from = a /\ calls[3].to = b

(* path closes a cycle that passes through a and b *)
cycleThrough(path, a, b) ==
    /\ Len(path) >= 2
    /\ path[1] = path[Len(path)]
    /\ {a, b} \subseteq Range(path)

reentrancyCycleFound(a, b) ==
    /\ findings["reentrancy"].detected
    /\ \E i \in 1..Len(findings["reentrancy"].details.reentrancyPaths) :
           cycleThrough(findings["reentrancy"].details.reentrancyPaths[i], a, b)

scenarioA(req) ==
    /\ toLowerCase(req.trace.from) \in blacklistedAddresses
    /\ Has(req.trace, "gas") /\ req.trace.gas = GAS_2000000
    /\ Has(req.trace, "value") /\ req.trace.value = HUNDRED_ETH_LITERAL
    /\ Has(req.trace, "input")
    /\ \E s \in poisoningPatterns : startsWith(req.trace.input, s)

falsePositiveRoute(req) ==
    Has(req, "detectorName") /\ req.detectorName = FALSE_POSITIVE_DETECTOR

scenarioAKinds == {"spoofing", "frontRunning", "abnormalValue", "poisoning"}

(* the request reaches the evaluators as the scenario sends it: through    *)
(* detect to a detector other than the false-positive fixture, or through  *)
(* detectThreats alone without a legitimacy context                        *)
asScenario(req) ==
    \/ entry = "detect" /\ ~falsePositiveRoute(req)
    \/ entry = "processTransaction" /\ ~judgedLegitimate(req)

hasCall(calls, selector) ==
    \E i \in 1..Len(calls) : optStartsWith(calls[i], "input", selector)

(* a flash loan, at least three swaps and a borrow placed after every swap *)
scenarioC(req) ==
    /\ Has(req.trace, "calls")
    /\ LET calls == req.trace.calls
           swaps == { i \in 1..Len(calls) :
                        optStartsWith(calls[i], "input", SIG_SWAP) }
       IN  /\ hasCall(calls, SIG_AAVE_FLASH_LOAN)
           /\ Cardinality(swaps) >= 3
           /\ \E b \in 1..Len(calls) :
                  /\ optStartsWith(calls[b], "input", SIG_BORROW)
                  /\ \A s \in swaps : s < b

(* C10: for every transaction whose top-level calls hold a flash loan, at  *)
(* least three swaps and a borrow after the swaps, the oracleManipulation  *)
(* rule fires and its suspiciousPatterns contain 'twap_manipulation'.      *)
TwapManipulationReported ==
    (ran("oracleManipulation") /\ scenarioC(request))
    => /\ findings["oracleManipulation"].detected
       /\ "twap_manipulation" \in patternsOf("oracleManipulation")

TwapManipulationReportedWitness ==
    /\ ran("oracleManipulation")
    /\ scenarioC(request)
    /\ Len(request.trace.calls) = 5
    /\ "twap_manipulation" \in patternsOf("oracleManipulation")

(* the evaluators that do not consult the legitimacy override *)
independentKinds ==
    {"spoofing", "phishing", "poisoning", "abnormalValue", "flashLoan",
     "honeypot", "governanceAttack", "oracleManipulation"}

(* req with its additionalData replaced by a, an element of                *)
(* AdditionalDataOptions                                                   *)
withAdditionalData(req, a) ==
    [k \in (DOMAIN req) \ {"additionalData"} |-> req[k]] @@ a

(* C11: for two transactions with the same trace that differ only in       *)
(* additionalData, the findings of spoofing, phishing, poisoning,          *)
(* abnormalValue, flashLoan, honeypot, governanceAttack and                *)
(* oracleManipulation computed by detectThreats are identical.             *)
LegitimacyIndependent ==
    (pc # "idle" /\ entry = "processTransaction") =>
        \A a \in AdditionalDataOptions :
            \A k \in independentKinds \cap DOMAIN findings :
                runDetector(k, transactionOf(withAdditionalData(request, a)))
                    = findings[k]

(* a transaction judged legitimate whose abnormal value is found all the   *)
(* same, while its front-running finding depends on the additionalData     *)
LegitimacyIndependentWitness ==
    /\ pc = "returned"
    /\ entry = "processTransaction"
    /\ judgedLegitimate(request)
    /\ findings["abnormalValue"].detected
    /\ ~findings["frontRunning"].detected
    /\ runDetector("frontRunning",
           transactionOf(withAdditionalData(request, EmptyObject))).detected

(* the top-level calls of the request that carry the withdraw or the       *)
(* withdrawTo selector                                                     *)
withdrawLike(req) ==
    IF Has(req.trace, "calls")
    THEN { i \in 1..Len(req.trace.calls) :
             /\ Has(req.trace.calls[i], "input")
             /\ \/ includes(req.trace.calls[i].input, <<"0", "x", "2", "e", "1", "a", "7", "d", "4", "d">>)
                \/ includes(req.trace.calls[i].input, <<"0", "x", "5", "1", "c", "f", "f", "8", "d", "9">>) }
    ELSE {}

(* C12: for every request that names the detector                          *)
(* 'false-positive-detector', detect returns detected = false, the message *)
(* "No threats detected" and empty detectionDetails, whatever the trace    *)
(* contains: the false-positive clearing is the last override.             *)
FalsePositiveCleared ==
    (returned /\ entry = "detect" /\ falsePositiveRoute(request)) =>
        /\ response.detected = FALSE
        /\ response.message = <<"No threats detected">>
        /\ DOMAIN response.detectionDetails = {}

(* a false-positive request with gas '2000000' and repeated withdraw calls *)
(* on which an evaluator fired, returned cleared                           *)
FalsePositiveClearedWitness ==
    /\ returned
    /\ entry = "detect"
    /\ falsePositiveRoute(request)
    /\ Has(request.trace, "gas")
    /\ request.trace.gas = <<"2", "0", "0", "0", "0", "0", "0">>
    /\ Cardinality(withdrawLike(request)) > 1
    /\ \E k \in DOMAIN findings : findings[k].detected
    /\ response.detected = FALSE
    /\ DOMAIN response.detectionDetails = {}

(* the names of the suspicious patterns of the reported reentrancy entry *)
reportedReentrancyPatterns ==
    IF "reentrancy" \in reportedKinds
    THEN { p.pattern : p \in Range(response.detectionDetails["reentrancy"].suspiciousPatterns) }
    ELSE {}

(* C13: for every request whose top-level calls include more than one      *)
(* withdraw-like call (selector 0x2e1a7d4d or 0x51cff8d9) and whose        *)
(* detectorName is not 'false-positive-detector', detect returns           *)
(* detected = true with a reentrancy entry whose suspiciousPatterns        *)
(* contains a pattern named 'multiple_withdrawals'.                        *)
MultipleWithdrawalsReported ==
    (/\ returned
     /\ entry = "detect"
     /\ Cardinality(withdrawLike(request)) > 1
     /\ ~falsePositiveRoute(request)) =>
        /\ response.detected
        /\ "reentrancy" \in reportedKinds
        /\ "multiple_withdrawals" \in reportedReentrancyPatterns

(* C14: for every request whose gas is the string '2000000' and whose      *)
(* detectorName is not 'false-positive-detector', detect returns           *)
(* detected = true with a frontRunning entry, including when the sender is *)
(* the fixture address.                                                    *)
HighGasReported ==
    (/\ returned
     /\ entry = "detect"
     /\ Has(request.trace, "gas")
     /\ request.trace.gas = <<"2", "0", "0", "0", "0", "0", "0">>
     /\ ~falsePositiveRoute(request)) =>
        /\ response.detected
        /\ "frontRunning" \in reportedKinds

(* the fixture sender with gas '2000000': the front-running rule found     *)
(* nothing, the report carries the entry all the same                      *)
HighGasReportedWitness ==
    /\ returned
    /\ entry = "detect"
    /\ request.trace.from = <<"0", "x", "1", "2", "3", "4", "5", "6", "7", "8", "9", "0", "1", "2", "3", "4", "5", "6", "7", "8", "9", "0", "1", "2", "3", "4", "5", "6", "7", "8", "9", "0", "1", "2", "3", "4", "5", "6", "7", "8", "9", "0">>
    /\ Has(request.trace, "gas")
    /\ request.trace.gas = <<"2", "0", "0", "0", "0", "0", "0">>
    /\ ~findings["frontRunning"].detected
    /\ response.detected
    /\ "frontRunning" \in reportedKinds

(* the evaluators in the order detectThreats lists them *)
evaluatorOrder ==
    <<"spoofing", "phishing", "poisoning", "reentrancy", "frontRunning",
      "abnormalValue", "flashLoan", "honeypot", "governanceAttack",
      "oracleManipulation", "crossChainAttack">>

(* the messages of the fired findings from the i-th evaluator on, with     *)
(* "; " between them                                                       *)
RECURSIVE joinedFrom(_)
joinedFrom(i) ==
    IF i > Len(evaluatorOrder) THEN <<>>
    ELSE IF ~findings[evaluatorOrder[i]].detected THEN joinedFrom(i + 1)
    ELSE IF joinedFrom(i + 1) = <<>> THEN <<findings[evaluatorOrder[i]].message>>
    ELSE <<findings[evaluatorOrder[i]].message, "; ">> \o joinedFrom(i + 1)

(* C15: the message built by detectThreats is exactly the fired findings'  *)
(* messages joined by "; " in the fixed evaluator order, and "No threats   *)
(* detected" when none fired.                                              *)
MessageIsJoinedFindings ==
    (returned /\ entry = "processTransaction") =>
        response.message =
            IF \E k \in DOMAIN findings : findings[k].detected
            THEN joinedFrom(1)
            ELSE <<"No threats detected">>

(* three or more findings fired, with different messages *)
MessageIsJoinedFindingsWitness ==
    /\ returned
    /\ entry = "processTransaction"
    /\ Cardinality({k \in DOMAIN findings : findings[k].detected}) >= 3
    /\ Len(response.message) >= 5
    /\ response.message[1] # response.message[5]
    /\ response.message[2] = "; "

(* 0x followed by forty hexadecimal digits *)
isHexAddress(a) ==
    /\ Len(a) = 42
    /\ a[1] = "0"
    /\ a[2] = "x"
    /\ \A i \in 3..42 : IsHexDigit(a[i])

(* the hexadecimal digits at position i of a and b differ *)
digitsDiffer(a, b, i) == DigitValue(a[i]) # DigitValue(b[i])

differOnlyInLast(a, b) ==
    /\ isHexAddress(a)
    /\ isHexAddress(b)
    /\ \A i \in 3..41 : a[i] = b[i]
    /\ digitsDiffer(a, b, 42)

differEverywhere(a, b) ==
    /\ isHexAddress(a)
    /\ isHexAddress(b)
    /\ \A i \in 3..42 : digitsDiffer(a, b, i)

(* the score of the sender and the recipient of the request, as the pair   *)
(* of its numerator and denominator                                        *)
score == calculateAddressSimilarity(request.trace.from, request.trace.to)

spoofingDetails ==
    IF findings["spoofing"].detected THEN findings["spoofing"].details
    ELSE EmptyObject

(* C16: two equal-length addresses that are identical except for their     *)
(* last hex character have a similarity score above 0.7 and below 1, so    *)
(* isAddressSpoofing holds and the spoofing finding records the            *)
(* similarity; two that differ at every position score 0.                  *)
SimilarityBoundary ==
    pc = "returned" =>
        /\ differOnlyInLast(request.trace.from, request.trace.to) =>
              /\ 10 * score.matches > 7 * score.length
              /\ score.matches < score.length
              /\ "addressSimilarity" \in DOMAIN spoofingDetails
        /\ differEverywhere(request.trace.from, request.trace.to) =>
              /\ score.matches = 0
              /\ score.length > 0
              /\ "addressSimilarity" \notin DOMAIN spoofingDetails

(* a sender and a recipient that differ in the last digit only, reported   *)
(* with 39 matching characters of 40                                       *)
SimilarityBoundaryWitness ==
    /\ pc = "returned"
    /\ differOnlyInLast(request.trace.from, request.trace.to)
    /\ findings["spoofing"].detected
    /\ spoofingDetails["addressSimilarity"].similarity = [matches |-> 39, length |-> 40]

----------------------------------------------------------------------------
(* Repeated evaluation *)

(* DetectionService.detect(request) called again with the same request:    *)
(* it builds a new service and a new response                              *)
DetectAgain ==
    /\ pc # "idle"
    /\ entry = "detect"
    /\ entry' = "detectAgain"
    /\ findings' = detectionResults(transactionOf(request))
    /\ response' = postProcess(request,
                                aggregate(transactionOf(request), findings'))
    /\ pc' = pcAfter(response')
    /\ UNCHANGED <<request, search>>

RepeatNext == Detect \/ DetectAgain

RepeatSpec == Init /\ [][RepeatNext]_vars

----------------------------------------------------------------------------
(* Call graphs over four contracts *)

CONTRACT_C == <<"0", "x", "9", "2", "3", "4", "5", "6", "7", "8", "9", "0", "1", "2", "3", "4", "5", "6", "7", "8", "9", "0", "1", "2", "3", "4", "5", "6", "7", "8", "9", "0", "1", "2", "3", "4", "5", "6", "7", "8", "9", "0">>

CONTRACT_D == <<"0", "x", "a", "2", "3", "4", "5", "6", "7", "8", "9", "0", "1", "2", "3", "4", "5", "6", "7", "8", "9", "0", "1", "2", "3", "4", "5", "6", "7", "8", "9", "0", "1", "2", "3", "4", "5", "6", "7", "8", "9", "0">>

MaxGraphCalls == 4

(* the calls of a four-cycle, a chord that closes a three-cycle, a call    *)
(* with a value, whose reverse edge closes a two-cycle, and a self-call    *)
GraphCalls ==
    { [from |-> CONTRACT_A, to |-> CONTRACT_B, input |-> <<"0", "x">>],
      [from |-> CONTRACT_B, to |-> CONTRACT_C, input |-> <<"0", "x">>, value |-> ONE_ETH],
      [from |-> CONTRACT_C, to |-> CONTRACT_D, input |-> <<"0", "x">>],
      [from |-> CONTRACT_D, to |-> CONTRACT_A, input |-> <<"0", "x">>],
      [from |-> CONTRACT_C, to |-> CONTRACT_A, input |-> <<"0", "x">>],
      [from |-> CONTRACT_A, to |-> CONTRACT_A, input |-> <<"0", "x">>] }

GraphRequests ==
    { Envelope @@ [detectorName |-> <<"t", "e", "s", "t", "-", "d", "e", "t", "e", "c", "t", "o", "r">>] @@
      [trace |-> [from |-> PLAIN_SENDER, to |-> PLAIN_RECIPIENT,
                  transactionHash |-> PLAIN_HASH, gas |-> <<"2", "1", "0", "0", "0">>,
                  calls |-> c]] :
        c \in SeqUpTo(GraphCalls, MaxGraphCalls) }

GraphInit ==
    /\ request \in GraphRequests
    /\ entry = "none"
    /\ pc = "idle"
    /\ findings = NoValue
    /\ response = NoValue
    /\ search = NoValue

(* the rule is reached through detectThreats *)
GraphSpec == GraphInit /\ [][ProcessTransaction]_vars

(* the call graph of the request: its nodes and its directed edges *)
graphOfRequest == buildCallGraph(callsOrEmpty(request.trace))

graphNodes == Range(graphOfRequest.keys)

graphEdges ==
    UNION { { <<a, graphOfRequest.edges[a][k].to>> :
                k \in 1..Len(graphOfRequest.edges[a]) } : a \in graphNodes }

(* the paths the reentrancy rule reports *)
reportedPaths ==
    IF findings["reentrancy"].detected
    THEN Range(findings["reentrancy"].details.reentrancyPaths)
    ELSE {}

(* the sequences of n pairwise distinct nodes of N *)
distinctNodes(N, n) ==
    { s \in [1..n -> N] : \A i, j \in 1..n : s[i] = s[j] => i = j }

(* s is a directed cycle of the graph with the edges E: every node of s    *)
(* has an edge to the next and the last has one to the first               *)
isCycle(E, s) ==
    \A i \in 1..Len(s) : <<s[i], s[(i % Len(s)) + 1]>> \in E

(* the closed path that runs through the cycle s from its node k + 1 *)
rotation(s, k) ==
    [i \in 1..(Len(s) + 1) |-> s[((i + k - 1) % Len(s)) + 1]]

(* some rotation of the cycle s is among the paths P *)
asRotation(P, s) ==
    \E k \in 0..(Len(s) - 1) : rotation(s, k) \in P

(* C18: findReentrancyPaths with the depth cap 3 is complete and sound     *)
(* within the cap: every directed cycle of the call graph with at most     *)
(* three edges (a self-loop, a two-cycle, a three-cycle) is reported at    *)
(* least once as some rotation, and no reported path has more than three   *)
(* edges.                                                                  *)
ShortCyclesReported ==
    (ran("reentrancy") /\ ~judgedLegitimate(request)) =>
        LET N == graphNodes
            E == graphEdges
            P == reportedPaths
        IN  /\ \A n \in 1..3 : \A s \in distinctNodes(N, n) :
                   isCycle(E, s) => asRotation(P, s)
            /\ \A p \in P : Len(p) - 1 <= 3

(* a graph with a cycle of four edges, which is not reported, next to a    *)
(* two-cycle, which is                                                     *)
ShortCyclesReportedWitness ==
    /\ ran("reentrancy")
    /\ ~judgedLegitimate(request)
    /\ LET N == graphNodes
           E == graphEdges
           P == reportedPaths
       IN  /\ \E s \in distinctNodes(N, 4) : isCycle(E, s) /\ ~asRotation(P, s)
           /\ \E s \in distinctNodes(N, 2) : isCycle(E, s) /\ asRotation(P, s)

(* C19: every recorded path begins and ends with the same node, its nodes  *)
(* other than the last are pairwise distinct, and every consecutive pair   *)
(* of its nodes is an edge of the call graph.                              *)
PathsAreSimpleCycles ==
    (ran("reentrancy") /\ ~judgedLegitimate(request)) =>
        LET E == graphEdges
        IN  \A p \in reportedPaths :
                /\ Len(p) >= 2
                /\ p[1] = p[Len(p)]
                /\ \A i, j \in 1..(Len(p) - 1) : p[i] = p[j] => i = j
                /\ \A i \in 1..(Len(p) - 1) : <<p[i], p[i + 1]>> \in E

(* a two-cycle found from a root that is not on it: the recorded path is   *)
(* cut at the first occurrence of the repeated node and leaves the root    *)
(* out; a three-cycle is recorded as well                                  *)
PathsAreSimpleCyclesWitness ==
    /\ ran("reentrancy")
    /\ ~judgedLegitimate(request)
    /\ \E p \in reportedPaths :
           /\ Len(p) = 3
           /\ graphOfRequest.keys[1] \notin Range(p)
    /\ \E p \in reportedPaths : Len(p) = 4

----------------------------------------------------------------------------
(* The call graph *)

topLevelCalls == callsOrEmpty(request.trace)

(* the calls that carry both a caller and a callee *)
withBothEnds ==
    { i \in 1..Len(topLevelCalls) :
        /\ Has(topLevelCalls[i], "from") /\ topLevelCalls[i].from # <<>>
        /\ Has(topLevelCalls[i], "to") /\ topLevelCalls[i].to # <<>> }

(* the value of the call, "0" when absent *)
annotatedValue(i) ==
    IF Has(topLevelCalls[i], "value") /\ topLevelCalls[i].value # <<>>
    THEN topLevelCalls[i].value ELSE <<"0">>

(* the call transfers a positive value or carries a withdraw-like selector *)
callsBack(i) ==
    \/ /\ Has(topLevelCalls[i], "value")
       /\ topLevelCalls[i].value # <<>>
       /\ BigNumberFrom(topLevelCalls[i].value) > 0
    \/ i \in withdrawLike(request)

(* every value the graph construction parses is a number *)
valuesParse ==
    \A i \in withBothEnds :
        Has(topLevelCalls[i], "value") /\ topLevelCalls[i].value # <<>>
            => IsBigNumberString(topLevelCalls[i].value)

(* edges as <<source, target, index, value>>, the index counted from 0 *)
expectedForward ==
    { <<topLevelCalls[i].from, topLevelCalls[i].to, i - 1, annotatedValue(i)>> :
        i \in withBothEnds }

expectedReverse ==
    { <<topLevelCalls[i].to, topLevelCalls[i].from, i - 1, annotatedValue(i)>> :
        i \in { j \in withBothEnds : callsBack(j) } }

builtEdges(graph) ==
    UNION { { <<a, graph.edges[a][k].to, graph.edges[a][k].index,
                graph.edges[a][k].value>> : k \in 1..Len(graph.edges[a]) } :
            a \in DOMAIN graph.edges }

RECURSIVE edgeCount(_, _)
edgeCount(graph, k) ==
    IF k > Len(graph.keys) THEN 0
    ELSE Len(graph.edges[graph.keys[k]]) + edgeCount(graph, k + 1)

(* C20: buildCallGraph produces exactly one forward edge from -> to for    *)
(* each call that has both from and to, annotated with the call's index    *)
(* and value ("0" when absent), plus a reverse edge to -> from with the    *)
(* same index for exactly the calls with a positive value or a             *)
(* withdraw-like selector; calls lacking from or to contribute no edge and *)
(* raise no error.                                                         *)
CallGraphExact ==
    (pc # "idle" /\ valuesParse) =>
        LET graph == buildCallGraph(topLevelCalls)
        IN  /\ ~buildCallGraphThrows(topLevelCalls)
            /\ builtEdges(graph) = expectedForward \cup expectedReverse
            /\ edgeCount(graph, 1) =
                   Cardinality(withBothEnds)
                   + Cardinality({ j \in withBothEnds : callsBack(j) })
            /\ \A a \in DOMAIN graph.edges :
                   \A k \in 1..Len(graph.edges[a]) :
                       LET e == graph.edges[a][k]
                           i == e.index + 1
                       IN  \/ /\ topLevelCalls[i].from = a
                              /\ topLevelCalls[i].to = e.to
                           \/ /\ topLevelCalls[i].to = a
                              /\ topLevelCalls[i].from = e.to
                              /\ callsBack(i)

(* calls of which one lacks its caller, one has a reverse edge and one has *)
(* none: three edges for three calls                                       *)
CallGraphExactWitness ==
    /\ pc # "idle"
    /\ valuesParse
    /\ Len(topLevelCalls) = 3
    /\ Cardinality(withBothEnds) = 2
    /\ Cardinality({ j \in withBothEnds : callsBack(j) }) = 1
    /\ edgeCount(buildCallGraph(topLevelCalls), 1) = 3
    /\ Cardinality(builtEdges(buildCallGraph(topLevelCalls))) = 3

----------------------------------------------------------------------------
(* The reentrancy search, one step at a time *)
(*                                                                         *)
(* search[e] is evaluation e of findReentrancyPaths: the graph it was      *)
(* given, the position k of its loop over Object.keys(callGraph), the      *)
(* stack of its dfs calls (the innermost last), its paths and its visited  *)
(* set.  A frame holds the arguments node, path and depth of the call and  *)
(* next, the position of its forEach over callGraph[node]: 0 before the    *)
(* call has passed its depth and cycle tests.  started lists the nodes     *)
(* dfs was called on from the loop over the keys.                          *)

newSearch(callGraph) ==
    [ graph |-> callGraph, k |-> 1, stack |-> <<>>, paths |-> <<>>,
      visited |-> {}, started |-> <<>> ]

frame(node, path, depth) ==
    [node |-> node, path |-> path, depth |-> depth, next |-> 0]

top(s) == s.stack[Len(s.stack)]

pop(s) == SubSeq(s.stack, 1, Len(s.stack) - 1)

(* a backtrack that leaves the node in the visited set *)
notBacktracked(visited, node) == visited

(* visited.delete(node) *)
backtracked(visited, node) == visited \ {node}

(* one visited set for every evaluation in progress *)
visitedOfAll(searches, e) == UNION { searches[i].visited : i \in DOMAIN searches }

(* const visited = new Set<string>(): the set of the evaluation itself *)
visitedOf(searches, e) == searches[e].visited

(* Object.keys(callGraph).forEach(node => { if (!visited.has(node))        *)
(* dfs(node, [], 0) }): the next key                                       *)
StartRoot(e) ==
    /\ search[e].stack = <<>>
    /\ search[e].k <= Len(search[e].graph.keys)
    /\ LET s == search[e]
           node == s.graph.keys[s.k]
       IN  search' = [search EXCEPT ![e] =
               IF node \notin visitedOf(search, e)
               THEN [s EXCEPT !.k = @ + 1,
                              !.stack = <<frame(node, <<>>, 0)>>,
                              !.started = Append(@, node)]
               ELSE [s EXCEPT !.k = @ + 1]]
    /\ UNCHANGED <<request, entry, pc, findings, response>>

(* the head of dfs: the depth test, the cycle test, then visited.add and   *)
(* path.push                                                               *)
EnterNode(e) ==
    /\ search[e].stack # <<>>
    /\ top(search[e]).next = 0
    /\ LET s == search[e]
           f == top(s)
       IN  search' = [search EXCEPT ![e] =
               IF f.depth > thresholds.maxReentrancyDepth
               THEN [s EXCEPT !.stack = pop(s)]
               ELSE IF f.path # <<>> /\ f.node \in Range(f.path)
               THEN [s EXCEPT !.stack = pop(s),
                              !.paths = Append(@,
                                  Append(SubSeq(f.path, indexOf(f.path, f.node),
                                                Len(f.path)), f.node))]
               ELSE [s EXCEPT !.visited = @ \cup {f.node},
                              !.stack = Append(pop(s),
                                  [f EXCEPT !.path = Append(@, f.node),
                                            !.next = 1])]]
    /\ UNCHANGED <<request, entry, pc, findings, response>>

(* callGraph[node].forEach(edge => dfs(edge.to, [...path], depth + 1)):    *)
(* the next edge                                                           *)
ExploreNeighbor(e) ==
    /\ search[e].stack # <<>>
    /\ top(search[e]).next >= 1
    /\ top(search[e]).node \in DOMAIN search[e].graph.edges
    /\ top(search[e]).next <= Len(search[e].graph.edges[top(search[e]).node])
    /\ LET s == search[e]
           f == top(s)
           edge == s.graph.edges[f.node][f.next]
       IN  search' = [search EXCEPT ![e] =
               [s EXCEPT !.stack =
                   Append(pop(s), [f EXCEPT !.next = @ + 1])
                   \o <<frame(edge.to, f.path, f.depth + 1)>>]]
    /\ UNCHANGED <<request, entry, pc, findings, response>>

(* the forEach is over: visited.delete(node) and return *)
Backtrack(e) ==
    /\ search[e].stack # <<>>
    /\ top(search[e]).next >= 1
    /\ ~(/\ top(search[e]).node \in DOMAIN search[e].graph.edges
         /\ top(search[e]).next <= Len(search[e].graph.edges[top(search[e]).node]))
    /\ LET s == search[e]
           f == top(s)
       IN  search' = [search EXCEPT ![e] =
               [s EXCEPT !.visited = backtracked(@, f.node),
                         !.stack = pop(s)]]
    /\ UNCHANGED <<request, entry, pc, findings, response>>

(* findReentrancyPaths has returned its paths *)
searchDone(s) == s.stack = <<>> /\ s.k > Len(s.graph.keys)

SearchNext ==
    \E e \in DOMAIN search :
        StartRoot(e) \/ EnterNode(e) \/ ExploreNeighbor(e) \/ Backtrack(e)

MaxSearchCalls == 3

(* calls whose graphs have cycles, a self-loop, parallel edges and, with   *)
(* the reverse edges of the calls that carry a value, a chain of four      *)
(* contracts                                                               *)
SearchCalls ==
    { [from |-> CONTRACT_A, to |-> CONTRACT_B, input |-> <<"0", "x">>],
      [from |-> CONTRACT_B, to |-> CONTRACT_C, input |-> <<"0", "x">>, value |-> ONE_ETH],
      [from |-> CONTRACT_C, to |-> CONTRACT_D, input |-> <<"0", "x">>, value |-> ONE_ETH],
      [from |-> CONTRACT_C, to |-> CONTRACT_A, input |-> <<"0", "x">>],
      [from |-> CONTRACT_A, to |-> CONTRACT_A, input |-> <<"0", "x">>] }

SearchRequests ==
    { Envelope @@ [detectorName |-> <<"t", "e", "s", "t", "-", "d", "e", "t", "e", "c", "t", "o", "r">>] @@
      [trace |-> [from |-> PLAIN_SENDER, to |-> PLAIN_RECIPIENT,
                  transactionHash |-> PLAIN_HASH, gas |-> <<"2", "1", "0", "0", "0">>,
                  calls |-> c]] :
        c \in SeqUpTo(SearchCalls, MaxSearchCalls) }

SearchInit ==
    /\ request \in SearchRequests
    /\ entry = "none"
    /\ pc = "idle"
    /\ findings = NoValue
    /\ response = NoValue
    /\ search = (1 :> newSearch(buildCallGraph(callsOrEmpty(request.trace))))

(* the search is synchronous code: it goes on until it returns *)
SearchSpec == SearchInit /\ [][SearchNext]_vars /\ WF_vars(SearchNext)

(* C21: findReentrancyPaths terminates on every finite call graph,         *)
(* including graphs with cycles, self-loops and parallel edges: the DFS    *)
(* from each root eventually returns, its recursion depth never exceeds    *)
(* maxReentrancyDepth + 1, and every key of the graph is explored as a     *)
(* root exactly once.                                                      *)
SearchTerminates ==
    /\ <>[](\A e \in DOMAIN search : searchDone(search[e]))
    /\ [](\A e \in DOMAIN search :
            /\ \A i \in 1..Len(search[e].stack) :
                   /\ search[e].stack[i].depth = i - 1
                   /\ search[e].stack[i].depth <= 3 + 1
            /\ search[e].stack # <<>> =>
                   search[e].stack[1].node = search[e].started[Len(search[e].started)]
            /\ search[e].started =
                   SubSeq(search[e].graph.keys, 1, search[e].k - 1))

(* a search that has returned from a graph with a self-loop and parallel   *)
(* edges, after reaching the depth at which the cap cuts it, with cycles   *)
(* found from several roots                                                *)
SearchTerminatesWitness ==
    /\ 1 \in DOMAIN search
    /\ searchDone(search[1])
    /\ Len(search[1].graph.keys) = 3
    /\ search[1].started = search[1].graph.keys
    /\ \E a \in DOMAIN search[1].graph.edges :
           /\ \E i \in 1..Len(search[1].graph.edges[a]) :
                  search[1].graph.edges[a][i].to = a
           /\ \E i, j \in 1..Len(search[1].graph.edges[a]) :
                  /\ i # j
                  /\ search[1].graph.edges[a][i].to = search[1].graph.edges[a][j].to
    /\ Len(search[1].paths) >= 3

----------------------------------------------------------------------------
(* Two evaluations in progress on one service *)

MaxInterleavedCalls == 2

InterleavedCalls ==
    { [from |-> CONTRACT_A, to |-> CONTRACT_B, input |-> <<"0", "x">>, value |-> ONE_ETH],
      [from |-> CONTRACT_B, to |-> CONTRACT_A, input |-> <<"0", "x">>],
      [from |-> CONTRACT_A, to |-> CONTRACT_A, input |-> <<"0", "x">>] }

InterleavedRequests ==
    { Envelope @@ [detectorName |-> <<"t", "e", "s", "t", "-", "d", "e", "t", "e", "c", "t", "o", "r">>] @@
      [trace |-> [from |-> PLAIN_SENDER, to |-> PLAIN_RECIPIENT,
                  transactionHash |-> PLAIN_HASH, gas |-> <<"2", "1", "0", "0", "0">>,
                  calls |-> c]] :
        c \in SeqUpTo(InterleavedCalls, MaxInterleavedCalls) }

(* the calls of the transaction the other evaluation was given *)
OtherCalls ==
    { <<>>,
      << [from |-> CONTRACT_B, to |-> CONTRACT_A, input |-> <<"0", "x">>] >>,
      << [from |-> CONTRACT_B, to |-> CONTRACT_A, input |-> <<"0", "x">>],
         [from |-> CONTRACT_A, to |-> CONTRACT_B, input |-> <<"0", "x">>] >>,
      << [from |-> CONTRACT_B, to |-> CONTRACT_A, input |-> <<"0", "x">>, value |-> ONE_ETH],
         [from |-> CONTRACT_A, to |-> CONTRACT_C, input |-> <<"0", "x">>],
         [from |-> CONTRACT_C, to |-> CONTRACT_B, input |-> <<"0", "x">>] >> }

(* two calls of findReentrancyPaths on the one service, each with the      *)
(* paths and the visited set it allocated                                  *)
InterleaveInit ==
    /\ request \in InterleavedRequests
    /\ entry = "none"
    /\ pc = "idle"
    /\ findings = NoValue
    /\ response = NoValue
    /\ \E other \in OtherCalls :
           search = (1 :> newSearch(buildCallGraph(callsOrEmpty(request.trace))))
                    @@ (2 :> newSearch(buildCallGraph(other)))

InterleaveSpec == InterleaveInit /\ [][SearchNext]_vars

----------------------------------------------------------------------------
(* Rules *)

(* the number a gas string denotes, read as decimal digits or, after 0x,   *)
(* as hexadecimal digits, exceeds k                                        *)
gasExceeds(gas, k) == IsBigNumberString(gas) /\ BigNumberFrom(gas) > k

(* C22: for a transaction that is not judged legitimate and not tagged     *)
(* false-positive, detectFrontRunning fires if and only if the numeric     *)
(* value of the gas limit, given as a decimal or as a hex string, exceeds  *)
(* 1,000,000 (or the gas string is the literal '2000000'); a decimal gas   *)
(* limit of at most 1,000,000, such as '100000' or '500000', does not fire *)
(* it.                                                                     *)
FrontRunningIffHighGas ==
    (/\ ran("frontRunning")
     /\ ~judgedLegitimate(request)
     /\ Has(request.trace, "gas")) =>
        (findings["frontRunning"].detected
            <=> \/ gasExceeds(request.trace.gas, 1000000)
                \/ request.trace.gas = <<"2", "0", "0", "0", "0", "0", "0">>)

(* a transfer of more than 1000 ETH *)
drainsTreasury(call) ==
    /\ Has(call, "input")
    /\ startsWith(call.input, <<"0", "x", "a", "9", "0", "5", "9", "c", "b", "b">>)
    /\ Has(call, "value")
    /\ IsBigNumberString(call.value)
    /\ BigNumberFrom(call.value) > 1000 * WeiPerEther

(* some call below call, at whatever depth, drains the treasury *)
RECURSIVE drainBelow(_)
drainBelow(call) ==
    /\ Has(call, "calls")
    /\ \E j \in 1..Len(call.calls) :
           drainsTreasury(call.calls[j]) \/ drainBelow(call.calls[j])

governancePatterns ==
    IF findings["governanceAttack"].detected
    THEN Range(findings["governanceAttack"].details.suspiciousPatterns)
    ELSE {}

(* C23: detectGovernanceAttack lists 'treasury_drain' whenever the call    *)
(* list contains a governance execute call (selector 0x0825f38f) that      *)
(* contains, at any nesting depth below it (directly nested, two levels    *)
(* down, or deeper), a transfer (0xa9059cbb) whose value exceeds 1000 ETH. *)
TreasuryDrainAtAnyDepth ==
    (/\ ran("governanceAttack")
     /\ \E i \in 1..Len(topLevelCalls) :
            /\ Has(topLevelCalls[i], "input")
            /\ startsWith(topLevelCalls[i].input, <<"0", "x", "0", "8", "2", "5", "f", "3", "8", "f">>)
            /\ drainBelow(topLevelCalls[i])) =>
        "treasury_drain" \in governancePatterns

(* the value a call carries, 0 when it carries none *)
carried(call) ==
    IF Has(call, "value") /\ call.value # <<>> /\ IsBigNumberString(call.value)
    THEN BigNumberFrom(call.value) ELSE 0

carriesFlashLoanSignature(call) ==
    /\ Has(call, "input")
    /\ \/ includes(call.input, <<"0", "x", "c", "3", "0", "1", "8", "a", "0", "e">>)
       \/ includes(call.input, <<"0", "x", "5", "c", "f", "f", "e", "9", "d", "e">>)
       \/ includes(call.input, <<"0", "x", "d", "9", "d", "9", "8", "c", "e", "4">>)

(* call i lends more than the high-value threshold (100 ETH) and a         *)
(* strictly later call j transfers the same magnitude back to its sender   *)
borrowAndRepay(calls) ==
    \E i \in 1..Len(calls) : \E j \in (i + 1)..Len(calls) :
        /\ carried(calls[i]) > 100 * WeiPerEther
        /\ Has(calls[i], "from")
        /\ Has(calls[j], "to")
        /\ calls[j].to = calls[i].from
        /\ carried(calls[j]) = carried(calls[i])

(* C24: detectFlashLoanAttack fires if and only if some top-level call     *)
(* carries a known flash-loan signature, or a call whose value exceeds the *)
(* high-value threshold is followed by a strictly later call that          *)
(* transfers the same magnitude back to the original caller; a later       *)
(* transfer of a different magnitude, or a single call that is both the    *)
(* large transfer and the transfer back, does not count.                   *)
FlashLoanIffBorrowAndRepay ==
    ran("flashLoan") =>
        (findings["flashLoan"].detected
            <=> \/ \E i \in 1..Len(topLevelCalls) :
                       carriesFlashLoanSignature(topLevelCalls[i])
                \/ borrowAndRepay(topLevelCalls))

reentrancyPatternNames ==
    IF findings["reentrancy"].detected
    THEN { p.pattern : p \in Range(findings["reentrancy"].details.suspiciousPatterns) }
    ELSE {}

(* the distinct calls with a positive value whose caller or callee is on   *)
(* the path                                                                *)
valueCallsOn(path) ==
    { i \in 1..Len(topLevelCalls) :
        /\ carried(topLevelCalls[i]) > 0
        /\ \/ Has(topLevelCalls[i], "from") /\ topLevelCalls[i].from \in Range(path)
           \/ Has(topLevelCalls[i], "to") /\ topLevelCalls[i].to \in Range(path) }

(* C25: analyzeReentrancyPatterns reports 'nested_value_transfers' if and  *)
(* only if, for some reported cycle, more than one distinct call carrying  *)
(* positive value belongs to that cycle's member calls; a trace with a     *)
(* single positive-value call never gets this pattern.                     *)
NestedValueTransfersCounted ==
    (ran("reentrancy") /\ ~judgedLegitimate(request)) =>
        ("nested_value_transfers" \in reentrancyPatternNames
            <=> \E p \in reportedPaths : Cardinality(valueCallsOn(p)) > 1)

(* the transaction hash in lower case, without its 0x prefix *)
normalizedHash ==
    LET h == [i \in 1..Len(request.trace.transactionHash) |->
                 LowerChar(request.trace.transactionHash[i])]
    IN  IF Len(h) >= 2 /\ h[1] = "0" /\ h[2] = "x"
        THEN SubSeq(h, 3, Len(h)) ELSE h

(* n consecutive characters of h whose codes ascend one by one *)
ascendingRun(h, n) ==
    \E i \in 1..(Len(h) - n + 1) :
        \A j \in 1..(n - 1) :
            charCodeAt(h[i + j]) = charCodeAt(h[i + j - 1]) + 1

(* C26: isHashManipulated returns true if and only if, in the transaction  *)
(* hash lowercased and stripped of '0x', some character occurs more than   *)
(* 20 times or there is a run of 10 or more consecutive characters with    *)
(* ascending character codes (for example a hash containing '0123456789'). *)
HashManipulatedIffPattern ==
    (ran("spoofing") /\ Has(request.trace, "transactionHash")
        /\ request.trace.transactionHash # <<>>) =>
        ("suspiciousHash" \in DOMAIN spoofingDetails
            <=> \/ \E c \in Range(normalizedHash) :
                       Cardinality({ i \in 1..Len(normalizedHash) :
                                       normalizedHash[i] = c }) > 20
                \/ ascendingRun(normalizedHash, 10))

crossChainPatterns ==
    IF findings["crossChainAttack"].detected
    THEN Range(findings["crossChainAttack"].details.suspiciousPatterns)
    ELSE {}

(* the price supplied under key k, as a number *)
suppliedPrice(k) == BigNumberFrom(request.additionalData[k])

pricesSupplied ==
    /\ Has(request, "additionalData")
    /\ Has(request.additionalData, "sourcePrice")
    /\ Has(request.additionalData, "destinationPrice")
    /\ IsBigNumberString(request.additionalData.sourcePrice)
    /\ IsBigNumberString(request.additionalData.destinationPrice)

(* C27: for a transaction not judged legitimate, detectCrossChainAttack    *)
(* lists 'price_inconsistency' if and only if a source and a destination   *)
(* price are both supplied in additionalData, the source price is          *)
(* positive, and the destination price differs from it by more than 20%    *)
(* (destination > 1.2 x source or destination < 0.8 x source), for every   *)
(* pair of non-negative integer prices including small ones.               *)
PriceInconsistencyExact ==
    (ran("crossChainAttack") /\ ~judgedLegitimate(request)) =>
        ("price_inconsistency" \in crossChainPatterns
            <=> /\ pricesSupplied
                /\ suppliedPrice("sourcePrice") > 0
                /\ \/ 10 * suppliedPrice("destinationPrice")
                        > 12 * suppliedPrice("sourcePrice")
                   \/ 10 * suppliedPrice("destinationPrice")
                        < 8 * suppliedPrice("sourcePrice"))

(* C29: in every response returned by detect the message and the flag      *)
(* agree: the message is "No threats detected" if and only if detected is  *)
(* false; after any sequence of the overrides of detect (sentinel clearing *)
(* followed by forced reentrancy or forced front-running) a response with  *)
(* detected = true never carries the message "No threats detected".        *)
MessageAgreesWithFlag ==
    (returned /\ entry = "detect") =>
        (response.message = <<"No threats detected">> <=> ~response.detected)

(* the addresses that occur as the caller or the callee of a top-level call *)
topLevelAddresses ==
    { topLevelCalls[i].from :
        i \in { j \in 1..Len(topLevelCalls) : Has(topLevelCalls[j], "from") } }
    \cup
    { topLevelCalls[i].to :
        i \in { j \in 1..Len(topLevelCalls) : Has(topLevelCalls[j], "to") } }

(* C30: in every response returned by detect that has a reentrancy entry,  *)
(* each path in reentrancyPaths begins and ends with the same address and  *)
(* consists only of addresses that occur as from or to of some top-level   *)
(* call of the evaluated trace, and contractsInvolved lists only such      *)
(* addresses (or the sender and the recipient of the trace itself).        *)
ReentrancyEntryFromTrace ==
    (returned /\ entry = "detect" /\ "reentrancy" \in reportedKinds) =>
        LET A == topLevelAddresses
            r == response.detectionDetails["reentrancy"]
        IN  /\ \A p \in Range(r.reentrancyPaths) :
                   /\ p # <<>>
                   /\ p[1] = p[Len(p)]
                   /\ Range(p) \subseteq A
            /\ Range(r.contractsInvolved)
                   \subseteq A \cup {request.trace.from, request.trace.to}

====
